---- MODULE Spec2Model ----
(***************************************************************************)
(* VedOps pipeline orchestration and resilience engine.                    *)
(*                                                                         *)
(* Spec   : VedOpsOrchestrator.execute_pipeline and                        *)
(*          _execute_agent_with_persistence (src/utils/orchestrator.py)    *)
(*          over the pipeline_runs / agent_executions tables of            *)
(*          DatabaseManager (src/utils/database.py).  Each DatabaseManager *)
(*          operation is modelled by the SQL statement it executes.        *)
(* SpecCB : CircuitBreaker.__call__ (src/utils/resilience.py) called by    *)
(*          several threads, with a clock for time.time().                 *)
(***************************************************************************)
EXTENDS Integers, Sequences, FiniteSets, TLC

----------------------------------------------------------------------------
(* Bounds *)

\* pipeline_config['max_retries'] ranges over 0..MaxRetriesBound
MaxRetriesBound == 4
\* number of execute_pipeline calls made on the one orchestrator
MaxCalls == 2
\* number of stage executions in which an attempt may end in an exception
MaxFaultyStages == 1

\* number of threads that call the circuit-breaker-protected function
NumCallers == 3
\* the clock time.time() runs over 0..MaxTime
MaxTime == 3
\* failure_threshold ranges over 1..MaxThreshold
MaxThreshold == 2
\* recovery_timeout ranges over 0..MaxRecoveryTimeout
MaxRecoveryTimeout == 2
\* total number of calls of the protected function's wrapper
MaxBreakerCalls == 5

\* number of threads that call the bulkhead-protected function
NumBulkheadCallers == 3
\* max_concurrent ranges over 0..MaxConcurrentBound
MaxConcurrentBound == 2
\* total number of calls of the bulkhead wrapper
MaxBulkheadCalls == 5

\* number of result keys that any stage may emit besides its own key
MaxSharedKeys == 1

\* number of threads that call execute_with_resilience
NumResilienceCallers == 6
\* total number of calls of execute_with_resilience
MaxResilienceCalls == 7
\* number of times the clock advances by one recovery timeout
MaxRecoveryPeriods == 1

\* number of threads that call the methods of one agent
NumAgentThreads == 2
\* total number of calls made on the agent
MaxAgentCalls == 3

\* number of threads that call the operations of one DatabaseManager
NumDbThreads == 2
\* total number of DatabaseManager operations called
MaxDbLockCalls == 4

\* the largest Timeout.seconds
MaxTimeoutSeconds == 1
\* total number of calls of the Timeout wrapper
MaxTimeoutCalls == 2

\* the largest max_attempts a RetryPolicy is built with
MaxAttemptsBound == 4

\* number of pipeline_runs rows ever inserted
MaxDbRuns == 2
\* number of child rows ever inserted, all child tables together
MaxDbChildren == 3

----------------------------------------------------------------------------
(* Program constants *)

\* CircuitBreaker.__init__(failure_threshold: int = 5, ...)
DefaultFailureThreshold == 5
\* CircuitBreaker.__init__(..., recovery_timeout: int = 60, ...)
DefaultRecoveryTimeout == 60

\* create_agent_execution(..., max_retries: int = 3)
DefaultMaxRetries == 3

\* BulkheadIsolation.__init__(max_concurrent: int = 10)
DefaultMaxConcurrent == 10

\* BaseAgent.execute_with_resilience: @bulkhead(max_concurrent=5)
AgentMaxConcurrent == 5
\* BaseAgent.execute_with_resilience: @circuit_breaker(failure_threshold=5, ...)
AgentFailureThreshold == 5
\* BaseAgent.execute_with_resilience: @circuit_breaker(..., recovery_timeout=60)
AgentRecoveryTimeout == 60
\* BaseAgent.execute_with_resilience: @retry(max_attempts=3, ...)
AgentMaxAttempts == 3

\* BaseAgent.execute_with_resilience: @timeout(300)
AgentTimeoutSeconds == 300

\* SecurityScanTool._calculate_risk_score: return min(risk_score, 100)
MaxRiskScore == 100
\* YamaAgent.execute: deployment_approved = risk_score < 50
ApprovalRiskLimit == 50

None == "None"
NoError == <<"none", "", 0>>

\* _initialize_agents: agent_classes
AgentNames == {"varuna", "agni", "yama", "vayu", "hanuman", "krishna",
               "observability", "optimization", "terraform"}

\* _execute_pipeline_sequential: the fixed stage order
SequentialStages == <<"varuna", "agni", "yama", "terraform", "vayu",
                      "hanuman", "krishna", "observability", "optimization">>

\* _execute_pipeline_parallel: the stages run before the first
\* parallel_executor(...) call
ParallelStages == <<"varuna", "agni">>

VARIABLES
    pipeline_config,    \* self.pipeline_config: max_retries, auto_rollback, parallel_execution
    agents,             \* self.agents: names of the agents that were constructed
    always_raising,     \* the agents whose execute raises on every call
    pipeline_runs,      \* table pipeline_runs, row id = index
    agent_executions,   \* table agent_executions, row id = index
    current_run_id,     \* self.current_run_id
    pc,                 \* position of the execute_pipeline call
    stage,              \* index of the stage being executed
    execution_id,       \* local execution_id of _execute_agent_with_persistence
    retry_count,        \* local retry_count of _execute_agent_with_persistence
    exc,                \* the exception being propagated
    vayu_result,        \* vayu_result.get('deployment_status')
    call,               \* what the current execute_pipeline call did so far
    history,            \* per agent execution: calls of agent.execute, 'running' marks
    faulty,             \* the stage executions in which an attempt ended in an exception
    breaker_config,     \* CircuitBreaker: failure_threshold, recovery_timeout
    breaker,            \* CircuitBreaker: state, failure_count, last_failure_time, lock
    caller,             \* per calling thread: position in wrapper, outcome of its last call
    now,                \* time.time()
    observed,           \* what the callers of the wrapper have observed so far
    max_concurrent,     \* BulkheadIsolation.max_concurrent
    semaphore,          \* BulkheadIsolation.semaphore: the permits left
    bh_caller,          \* per thread calling the bulkhead wrapper: position, outcome
    bh_observed,        \* calls of the bulkhead wrapper, invocations of func, last caller
    seq_pc,             \* _execute_pipeline_sequential: index of the next stage, or its end
    seq_recorded,       \* per stage executed: the input recorded and the result returned
    db_foreign_keys,    \* PRAGMA foreign_keys of the connections get_connection opens
    db_pipeline_runs,   \* table pipeline_runs: [id, old], old = created before the retention limit
    db_child_rows,      \* the rows of the four child tables: [table, id, pipeline_run_id]
    db_sequence,        \* per table: the last id AUTOINCREMENT handed out
    gov_pc,             \* sequential run with the real agents: the next step
    gov_risk_score,     \* security_results['risk_score'] of the security scan
    gov_locals,         \* the locals of _execute_pipeline_sequential assigned so far
    gov_run_status,     \* pipeline_runs.status of the run
    gov_deployments,    \* number of deployments the deploy stage performed
    res_breaker,        \* execute_with_resilience: the CircuitBreaker of its decorator
    res_semaphore,      \* execute_with_resilience: the semaphore of its BulkheadIsolation
    res_now,            \* time.time()
    res_caller,         \* per thread calling execute_with_resilience: its position
    res_attempt,        \* RetryPolicy wrapper: `attempt` of the call inside the breaker
    res_observed,       \* number of calls made, and how the last finished call ended
    retry_max_attempts, \* RetryPolicy.max_attempts
    retry_pc,           \* position of the call of the RetryPolicy wrapper
    retry_attempt,      \* RetryPolicy wrapper: the loop variable `attempt`
    retry_history,      \* how each invocation of func ended, in order
    retry_sleeps,       \* per call of time.sleep: the number of invocations made before it
    retry_outcome,      \* how the call of the wrapper ended
    ag_lock,            \* BaseAgent.lock: the thread that holds it, 0 when free
    ag_status,          \* BaseAgent.status
    ag_breaker_lock,    \* the lock of the CircuitBreaker around execute_with_resilience: its holder
    ag_thread,          \* per thread: the method of the agent it called and its position in it
    ag_calls,           \* number of calls made on the agent so far
    core_node,          \* AgentOrchestrator: index of the workflow node to run next, 0 before the run
    core_state,         \* the AgentState passed along the workflow: pipeline_status, current_step, error_log
    core_returned,      \* what AgentOrchestrator.execute_pipeline returned: its pipeline_status
    dbl_lock,           \* DatabaseManager.lock: the thread that holds it, 0 when free
    dbl_connections,    \* number of sqlite3 connections open
    dbl_thread,         \* per thread: the DatabaseManager operation it called and its position in it
    dbl_calls,          \* number of DatabaseManager operations called so far
    to_seconds,         \* Timeout.seconds
    to_handler,         \* the handler installed for SIGALRM
    to_alarm,           \* whether an alarm is pending
    to_call,            \* the call of the Timeout wrapper: position, old_handler, what it is about to return or raise
    to_exits,           \* number of calls that exited, and how the last one did
    to_process          \* running, or terminated by a SIGALRM that met the default handler

orch_vars == <<pipeline_config, agents, always_raising, pipeline_runs, agent_executions,
               current_run_id, pc, stage, execution_id, retry_count, exc,
               vayu_result, call, history, faulty>>

cb_vars == <<breaker_config, breaker, caller, now, observed>>

\* BulkheadIsolation and the threads that call its wrapper
bh_vars == <<max_concurrent, semaphore, bh_caller, bh_observed>>

\* the data passed along the stages of _execute_pipeline_sequential
seq_vars == <<seq_pc, seq_recorded>>

\* the tables of DatabaseManager with their foreign keys, rows identified by id
db_vars == <<db_foreign_keys, db_pipeline_runs, db_child_rows, db_sequence>>

\* a sequential run made with YamaAgent, VayuAgent and KrishnaAgent
gov_vars == <<gov_pc, gov_risk_score, gov_locals, gov_run_status, gov_deployments>>

\* BaseAgent.execute_with_resilience under its four decorators
res_vars == <<res_breaker, res_semaphore, res_now, res_caller, res_attempt, res_observed>>

\* one call of the wrapper RetryPolicy.__call__ returns
rt_vars == <<retry_max_attempts, retry_pc, retry_attempt, retry_history, retry_sleeps,
             retry_outcome>>

\* BaseAgent: its lock, its status and the threads that call its methods
ag_vars == <<ag_lock, ag_status, ag_breaker_lock, ag_thread, ag_calls>>

\* AgentOrchestrator (src/core): one run of its workflow
core_vars == <<core_node, core_state, core_returned>>

\* DatabaseManager: its connection mutex and the threads that call its operations
dbl_vars == <<dbl_lock, dbl_connections, dbl_thread, dbl_calls>>

\* Timeout: the SIGALRM handler, the alarm and one caller on the main thread
to_vars == <<to_seconds, to_handler, to_alarm, to_call, to_exits, to_process>>

vars == <<pipeline_config, agents, always_raising, pipeline_runs, agent_executions,
          current_run_id, pc, stage, execution_id, retry_count, exc,
          vayu_result, call, history, faulty,
          breaker_config, breaker, caller, now, observed,
          max_concurrent, semaphore, bh_caller, bh_observed,
          seq_pc, seq_recorded,
          db_foreign_keys, db_pipeline_runs, db_child_rows, db_sequence,
          gov_pc, gov_risk_score, gov_locals, gov_run_status, gov_deployments,
          res_breaker, res_semaphore, res_now, res_caller, res_attempt, res_observed,
          retry_max_attempts, retry_pc, retry_attempt, retry_history, retry_sleeps,
          retry_outcome,
          ag_lock, ag_status, ag_breaker_lock, ag_thread, ag_calls,
          core_node, core_state, core_returned,
          dbl_lock, dbl_connections, dbl_thread, dbl_calls,
          to_seconds, to_handler, to_alarm, to_call, to_exits, to_process>>

\* what the orchestrator's operations leave alone
outside_orch == <<cb_vars, bh_vars, seq_vars, db_vars, gov_vars, res_vars, rt_vars, ag_vars,
                  core_vars, dbl_vars, to_vars>>

\* what the circuit breaker's operations leave alone
outside_cb == <<orch_vars, bh_vars, seq_vars, db_vars, gov_vars, res_vars, rt_vars, ag_vars,
                core_vars, dbl_vars, to_vars>>

\* what the bulkhead's operations leave alone
outside_bh == <<orch_vars, cb_vars, seq_vars, db_vars, gov_vars, res_vars, rt_vars, ag_vars,
                core_vars, dbl_vars, to_vars>>

\* what the stage data flow leaves alone
outside_seq == <<orch_vars, cb_vars, bh_vars, db_vars, gov_vars, res_vars, rt_vars, ag_vars,
                 core_vars, dbl_vars, to_vars>>

\* what the statements on the keyed tables leave alone
outside_db == <<orch_vars, cb_vars, bh_vars, seq_vars, gov_vars, res_vars, rt_vars, ag_vars,
                core_vars, dbl_vars, to_vars>>

\* what the run with the real agents leaves alone
outside_gov == <<orch_vars, cb_vars, bh_vars, seq_vars, db_vars, res_vars, rt_vars, ag_vars,
                 core_vars, dbl_vars, to_vars>>

\* what the call of the retry wrapper leaves alone
outside_rt == <<orch_vars, cb_vars, bh_vars, seq_vars, db_vars, gov_vars, res_vars, ag_vars,
                core_vars, dbl_vars, to_vars>>

\* what execute_with_resilience leaves alone
outside_res == <<orch_vars, cb_vars, bh_vars, seq_vars, db_vars, gov_vars, rt_vars, ag_vars,
                 core_vars, dbl_vars, to_vars>>

\* what the methods of the agent leave alone
outside_ag == <<orch_vars, cb_vars, bh_vars, seq_vars, db_vars, gov_vars, res_vars, rt_vars,
                core_vars, dbl_vars, to_vars>>

\* what the workflow of AgentOrchestrator leaves alone
outside_core == <<orch_vars, cb_vars, bh_vars, seq_vars, db_vars, gov_vars, res_vars,
                  rt_vars, ag_vars, dbl_vars, to_vars>>

\* what the operations on the connection mutex leave alone
outside_dbl == <<orch_vars, cb_vars, bh_vars, seq_vars, db_vars, gov_vars, res_vars, rt_vars,
                 ag_vars, core_vars, to_vars>>

\* what the Timeout wrapper leaves alone
outside_to == <<orch_vars, cb_vars, bh_vars, seq_vars, db_vars, gov_vars, res_vars, rt_vars,
                 ag_vars, core_vars, dbl_vars>>

----------------------------------------------------------------------------
(* DatabaseManager: the statements *)

\* INSERT INTO pipeline_runs ...: status defaults to 'pending'
create_pipeline_run(runs) ==
    Append(runs, [status |-> "pending", results |-> None, error_message |-> NoError])

\* update_pipeline_run that sets the status only
update_pipeline_run_status_only(runs, run_id, status, results, error_message) ==
    IF run_id \in DOMAIN runs
    THEN [runs EXCEPT ![run_id].status = status]
    ELSE runs

\* UPDATE pipeline_runs SET status = ?, [results = ?], [error_message = ?] WHERE id = ?
update_pipeline_run(runs, run_id, status, results, error_message) ==
    IF run_id \in DOMAIN runs
    THEN [runs EXCEPT ![run_id] =
            [status |-> status,
             results |-> IF results # None THEN results ELSE @.results,
             error_message |-> IF error_message # NoError THEN error_message
                               ELSE @.error_message]]
    ELSE runs

\* INSERT INTO agent_executions ...: status 'pending', retry_count 0
create_agent_execution(execs, pipeline_run_id, agent_name, max_retries) ==
    Append(execs, [pipeline_run_id |-> pipeline_run_id,
                   agent_name |-> agent_name,
                   status |-> "pending",
                   output_data |-> None,
                   error_message |-> NoError,
                   retry_count |-> 0,
                   max_retries |-> max_retries])

\* UPDATE agent_executions SET status = ?, [output_data = ?], [error_message = ?],
\*        [retry_count = retry_count + 1] WHERE id = ?
update_agent_execution(execs, id, status, output_data, error_message, increment_retry) ==
    IF id \in DOMAIN execs
    THEN [execs EXCEPT ![id] =
            [@ EXCEPT !.status = status,
                      !.output_data = IF output_data # None THEN output_data ELSE @,
                      !.error_message = IF error_message # NoError THEN error_message ELSE @,
                      !.retry_count = IF increment_retry THEN @ + 1 ELSE @]]
    ELSE execs

----------------------------------------------------------------------------
(* VedOpsOrchestrator *)

\* the stage list of the configured execution mode
Stages == IF pipeline_config.parallel_execution THEN ParallelStages ELSE SequentialStages

\* the retry test with < in place of <=
retry_allowed_strict(count, max_retries) == count < max_retries

\* while retry_count <= max_retries / if retry_count <= max_retries
retry_allowed(count, max_retries) == count <= max_retries

\* auto_rollback read as always on
auto_rollback_always(config) == TRUE

\* self.pipeline_config.get('auto_rollback', True)
auto_rollback(config) == config.auto_rollback

\* _handle_rollback: the stages for which self.agents['vayu'].rollback() is attempted
rollback_attempted(failed_agent, registered) ==
    failed_agent \in {"vayu", "hanuman"} /\ "vayu" \in registered

\* _handle_rollback without its try/except
_handle_rollback_unguarded(rollback_outcome) ==
    IF rollback_outcome = "ok" THEN NoError ELSE <<"rollback_failed", "vayu", 0>>

\* _handle_rollback: the exception that leaves it, for each outcome of rollback()
\* ("ok", "raises", or "unavailable" when the agent has no rollback attribute)
_handle_rollback(rollback_outcome) == NoError

\* error_msg = f"Agent {agent_name} failed (attempt {retry_count}): {str(e)}"
agent_error(agent_name, attempt) == <<"agent_failed", agent_name, attempt>>

\* _generate_pipeline_summary with the LLM call outside its try/except
_generate_pipeline_summary_unguarded(summary_outcome) ==
    CASE summary_outcome = "ok" ->
            [raised |-> NoError, status |-> "completed", ai_recommendations |-> "text"]
      [] summary_outcome = "llm_raises" ->
            [raised |-> <<"llm_failed", "", 0>>, status |-> None, ai_recommendations |-> None]
      [] summary_outcome = "db_raises" ->
            [raised |-> NoError, status |-> "completed", ai_recommendations |-> None]

\* _generate_pipeline_summary: the exception that leaves it and the summary it
\* returns, when everything works ("ok"), when self.llm_client.invoke raises
\* ("llm_raises") and when a database summary query raises ("db_raises")
_generate_pipeline_summary(summary_outcome) ==
    CASE summary_outcome = "ok" ->
            [raised |-> NoError, status |-> "completed", ai_recommendations |-> "text"]
      [] summary_outcome = "llm_raises" ->
            [raised |-> NoError, status |-> "completed",
             ai_recommendations |-> "AI recommendations unavailable"]
      [] summary_outcome = "db_raises" ->
            [raised |-> NoError, status |-> "completed", ai_recommendations |-> None]

NewCall(n) == [no |-> n, outcome |-> "none", raised |-> NoError,
               handle_rollback |-> 0, rollback |-> 0, run_id |-> 0,
               rollback_outcome |-> None, summary_outcome |-> None,
               ai_recommendations |-> None]

\* the agents whose construction in _initialize_agents may have failed
MissingCandidates == {"yama"}

\* _execute_pipeline_parallel, lines 194-208: the stages submitted together after
\* the deployment, test and governance
FanOutGroup == {"hanuman", "krishna"}

\* an attempt of this stage may end in an exception
MayFail(agent_name) ==
    \/ agent_name \in always_raising
    \/ <<call.no, agent_name>> \in faulty
    \/ Cardinality(faulty) < MaxFaultyStages

InitOrchestrator ==
    /\ pipeline_config \in [max_retries : 0..MaxRetriesBound,
                            auto_rollback : BOOLEAN,
                            parallel_execution : BOOLEAN]
    /\ agents \in {AgentNames} \cup {AgentNames \ {a} : a \in MissingCandidates}
    /\ always_raising \in {{}, FanOutGroup}
    /\ pipeline_runs = <<>>
    /\ agent_executions = <<>>
    /\ current_run_id = 0
    /\ pc = "idle"
    /\ stage = 0
    /\ execution_id = 0
    /\ retry_count = 0
    /\ exc = NoError
    /\ vayu_result = None
    /\ call = NewCall(0)
    /\ history = <<>>
    /\ faulty = {}

\* execute_pipeline, lines 69-80: _extract_project_name and create_pipeline_run;
\* either may raise before self.current_run_id is assigned
execute_pipeline ==
    /\ pc \in {"idle", "done"}
    /\ call.no < MaxCalls
    /\ \E created \in BOOLEAN :
         IF created
         THEN /\ pipeline_runs' = create_pipeline_run(pipeline_runs)
              /\ current_run_id' = Len(pipeline_runs')
              /\ call' = [NewCall(call.no + 1) EXCEPT !.run_id = Len(pipeline_runs')]
              /\ pc' = "update_running"
              /\ exc' = NoError
         ELSE /\ UNCHANGED <<pipeline_runs, current_run_id>>
              /\ call' = NewCall(call.no + 1)
              /\ pc' = "except"
              /\ exc' = <<"create_failed", "", 0>>
    /\ stage' = 0
    /\ execution_id' = 0
    /\ retry_count' = 0
    /\ vayu_result' = None
    /\ UNCHANGED <<pipeline_config, agents, always_raising, agent_executions, history, faulty>>
    /\ UNCHANGED outside_orch

\* execute_pipeline, line 83: self.db.update_pipeline_run(self.current_run_id, 'running')
execute_pipeline_running ==
    /\ pc = "update_running"
    /\ pipeline_runs' = update_pipeline_run(pipeline_runs, current_run_id, "running", None, NoError)
    /\ pc' = "agent"
    /\ stage' = 1
    /\ UNCHANGED <<pipeline_config, agents, always_raising, agent_executions, current_run_id,
                   execution_id, retry_count, exc, vayu_result, call, history, faulty>>
    /\ UNCHANGED outside_orch

\* _execute_agent_with_persistence, lines 228-241: availability check,
\* create_agent_execution, retry_count = 0
_execute_agent_with_persistence ==
    /\ pc = "agent"
    /\ LET agent_name == Stages[stage] IN
       IF agent_name \notin agents
       THEN /\ exc' = <<"not_available", agent_name, 0>>
            /\ pc' = "except"
            /\ UNCHANGED <<agent_executions, execution_id, retry_count, history>>
       ELSE /\ agent_executions' = create_agent_execution(agent_executions, current_run_id,
                                                          agent_name, DefaultMaxRetries)
            /\ execution_id' = Len(agent_executions')
            /\ history' = Append(history, [execute_calls |-> 0, running_marks |-> 0,
                                           persist_failed |-> FALSE])
            /\ retry_count' = 0
            /\ exc' = NoError
            /\ pc' = "attempt"
    /\ UNCHANGED <<pipeline_config, agents, always_raising, pipeline_runs, current_run_id, stage,
                   vayu_result, call, faulty>>
    /\ UNCHANGED outside_orch

\* line 245: self.db.update_agent_execution(execution_id, 'running')
attempt_running ==
    /\ pc = "attempt"
    /\ retry_allowed(retry_count, pipeline_config.max_retries)
    /\ agent_executions' = update_agent_execution(agent_executions, execution_id,
                                                  "running", None, NoError, FALSE)
    /\ history' = [history EXCEPT ![execution_id].running_marks = @ + 1]
    /\ pc' = "execute"
    /\ UNCHANGED <<pipeline_config, agents, always_raising, pipeline_runs, current_run_id, stage,
                   execution_id, retry_count, exc, vayu_result, call, faulty>>
    /\ UNCHANGED outside_orch

\* where the pipeline goes after stage s returned
AfterStage(s, deployment_status) ==
    IF pipeline_config.parallel_execution
    THEN IF s < Len(ParallelStages) THEN "agent" ELSE "parallel_executor"
    ELSE IF s = Len(SequentialStages) THEN "summary"
         ELSE IF SequentialStages[s] = "krishna" /\ deployment_status # "success"
              THEN "summary"
              ELSE "agent"

\* lines 276-293: the except branch of one attempt
AttemptFailed(execs, agent_name) ==
    LET count == retry_count + 1
        error_msg == agent_error(agent_name, count) IN
    /\ retry_count' = count
    /\ faulty' = IF agent_name \in always_raising THEN faulty
                 ELSE faulty \cup {<<call.no, agent_name>>}
    /\ IF retry_allowed(count, pipeline_config.max_retries)
       THEN /\ agent_executions' = update_agent_execution(execs, execution_id, "retrying",
                                                          None, error_msg, TRUE)
            /\ pc' = "attempt"
            /\ exc' = NoError
       ELSE /\ agent_executions' = update_agent_execution(execs, execution_id, "failed",
                                                          None, error_msg, FALSE)
            /\ pc' = "exhausted"
            /\ exc' = error_msg

\* lines 247-274: agent.execute(input_data) returns, the result is persisted and returned
agent_execute_returns ==
    /\ pc = "execute"
    /\ Stages[stage] \notin always_raising
    /\ LET agent_name == Stages[stage] IN
       \E deployment_status \in {"success", "blocked"} :
          /\ agent_name # "vayu" => deployment_status = "success"
          /\ agent_executions' = update_agent_execution(agent_executions, execution_id,
                                    "completed", <<agent_name, deployment_status>>, NoError, FALSE)
          /\ vayu_result' = IF agent_name = "vayu" THEN deployment_status ELSE vayu_result
          /\ pc' = AfterStage(stage, vayu_result')
          /\ stage' = IF pc' = "agent" THEN stage + 1 ELSE stage
    /\ history' = [history EXCEPT ![execution_id].execute_calls = @ + 1]
    /\ UNCHANGED <<pipeline_config, agents, always_raising, pipeline_runs, current_run_id,
                   execution_id, retry_count, exc, call, faulty>>
    /\ UNCHANGED outside_orch

\* lines 247-271 then 276: agent.execute returns, the row is marked completed, and
\* persisting the embedded findings, metrics or artifacts raises
agent_execute_persist_raises ==
    /\ pc = "execute"
    /\ Stages[stage] \notin always_raising
    /\ MayFail(Stages[stage])
    /\ LET agent_name == Stages[stage]
           completed == update_agent_execution(agent_executions, execution_id,
                                    "completed", <<agent_name, "malformed">>, NoError, FALSE) IN
       AttemptFailed(completed, agent_name)
    /\ history' = [history EXCEPT ![execution_id].execute_calls = @ + 1,
                                  ![execution_id].persist_failed = TRUE]
    /\ UNCHANGED <<pipeline_config, agents, always_raising, pipeline_runs, current_run_id, stage,
                   execution_id, vayu_result, call>>
    /\ UNCHANGED outside_orch

\* line 247 then 276: agent.execute(input_data) raises
agent_execute_raises ==
    /\ pc = "execute"
    /\ MayFail(Stages[stage])
    /\ AttemptFailed(agent_executions, Stages[stage])
    /\ history' = [history EXCEPT ![execution_id].execute_calls = @ + 1]
    /\ UNCHANGED <<pipeline_config, agents, always_raising, pipeline_runs, current_run_id, stage,
                   execution_id, vayu_result, call>>
    /\ UNCHANGED outside_orch

\* lines 295-298: _handle_rollback when configured, then raise Exception(error_msg)
retries_exhausted ==
    /\ pc = "exhausted"
    /\ LET failed_agent == Stages[stage] IN
       IF auto_rollback(pipeline_config)
       THEN \E rollback_outcome \in {"ok", "raises", "unavailable"} :
              /\ ~rollback_attempted(failed_agent, agents) => rollback_outcome = "ok"
              /\ call' = [call EXCEPT
                            !.handle_rollback = @ + 1,
                            !.rollback = IF rollback_attempted(failed_agent, agents)
                                         THEN @ + 1 ELSE @,
                            !.rollback_outcome = IF rollback_attempted(failed_agent, agents)
                                                 THEN rollback_outcome ELSE @]
              /\ exc' = IF rollback_attempted(failed_agent, agents)
                           /\ _handle_rollback(rollback_outcome) # NoError
                        THEN _handle_rollback(rollback_outcome)
                        ELSE exc
       ELSE UNCHANGED <<call, exc>>
    /\ pc' = "except"
    /\ UNCHANGED <<pipeline_config, agents, always_raising, pipeline_runs, agent_executions,
                   current_run_id, stage, execution_id, retry_count, vayu_result,
                   history, faulty>>
    /\ UNCHANGED outside_orch

\* _execute_pipeline_parallel, line 179: parallel_executor(max_workers=...) is a call
\* of a ParallelExecutor instance, which defines no __call__: TypeError
parallel_executor_call ==
    /\ pc = "parallel_executor"
    /\ exc' = <<"not_callable", "ParallelExecutor", 0>>
    /\ pc' = "except"
    /\ UNCHANGED <<pipeline_config, agents, always_raising, pipeline_runs, agent_executions,
                   current_run_id, stage, execution_id, retry_count, vayu_result,
                   call, history, faulty>>
    /\ UNCHANGED outside_orch

\* execute_pipeline, lines 114-121: mark self.current_run_id failed and re-raise
execute_pipeline_except ==
    /\ pc = "except"
    /\ pipeline_runs' = IF current_run_id # 0
                        THEN update_pipeline_run(pipeline_runs, current_run_id,
                                                 "failed", None, exc)
                        ELSE pipeline_runs
    /\ call' = [call EXCEPT !.outcome = "raised", !.raised = exc]
    /\ pc' = "done"
    /\ UNCHANGED <<pipeline_config, agents, always_raising, agent_executions, current_run_id, stage,
                   execution_id, retry_count, exc, vayu_result, history, faulty>>
    /\ UNCHANGED outside_orch

\* execute_pipeline, lines 90-112: _generate_pipeline_summary (the LLM collaborator
\* may raise), performance metrics, return pipeline_results
execute_pipeline_returns ==
    /\ pc = "summary"
    /\ \E summary_outcome \in {"ok", "llm_raises", "db_raises"} :
         LET final_summary == _generate_pipeline_summary(summary_outcome) IN
         IF final_summary.raised # NoError
         THEN /\ call' = [call EXCEPT !.summary_outcome = summary_outcome]
              /\ exc' = final_summary.raised
              /\ pc' = "except"
         ELSE /\ call' = [call EXCEPT
                            !.outcome = "returned",
                            !.summary_outcome = summary_outcome,
                            !.ai_recommendations = final_summary.ai_recommendations]
              /\ exc' = exc
              /\ pc' = "done"
    /\ UNCHANGED <<pipeline_config, agents, always_raising, pipeline_runs, agent_executions,
                   current_run_id, stage, execution_id, retry_count, vayu_result,
                   history, faulty>>
    /\ UNCHANGED outside_orch

\* _initialize_agents: the order in which agent_classes fills self.agents, which
\* is the order of self.agents.keys()
AgentOrder == <<"varuna", "agni", "yama", "vayu", "hanuman", "krishna",
                "observability", "optimization", "terraform">>

\* get_progress: agent_statuses.get(agent_name, 'pending') for the rows of the
\* run; a run holds at most one row per agent
agent_status(execs, run_id, agent_name) ==
    LET rows == {e \in DOMAIN execs : /\ execs[e].pipeline_run_id = run_id
                                       /\ execs[e].agent_name = agent_name}
    IN IF rows = {} THEN "pending"
       ELSE execs[CHOOSE e \in rows : \A other \in rows : e <= other].status

\* get_progress: the loop over self.agents.keys() from position i on, counting
\* 'completed' until the first agent that is running, retrying or failed
RECURSIVE completed_until_break(_, _, _, _)
completed_until_break(execs, run_id, registered, i) ==
    IF i > Len(AgentOrder) THEN 0
    ELSE IF AgentOrder[i] \notin registered
         THEN completed_until_break(execs, run_id, registered, i + 1)
         ELSE LET status == agent_status(execs, run_id, AgentOrder[i]) IN
              IF status = "completed"
              THEN 1 + completed_until_break(execs, run_id, registered, i + 1)
              ELSE IF status \in {"running", "retrying", "failed"}
                   THEN 0
                   ELSE completed_until_break(execs, run_id, registered, i + 1)

\* get_progress for a current run: completed_agents, total_agents and
\* percentage = (completed_agents / total_agents) * 100, kept as a fraction
get_progress(execs, run_id, registered) ==
    LET completed_agents == completed_until_break(execs, run_id, registered, 1)
        total_agents == Cardinality(registered) IN
    [completed_agents |-> completed_agents,
     total_agents |-> total_agents,
     percentage |-> [numerator |-> completed_agents * 100, denominator |-> total_agents]]

----------------------------------------------------------------------------
(* CircuitBreaker *)

Callers == 1..NumCallers

\* last_failure_time = None
NoTime == -1

\* `with self.lock` taken without waiting for the holder
lock_free_ignored(lock) == TRUE

\* `with self.lock`: the lock can be taken when no thread holds it
lock_free(lock) == lock = 0

\* _should_attempt_reset that does not wait for recovery_timeout
_should_attempt_reset_at_once(last_failure_time, time, recovery_timeout) == TRUE

\* _should_attempt_reset
_should_attempt_reset(last_failure_time, time, recovery_timeout) ==
    IF last_failure_time = NoTime
    THEN TRUE
    ELSE time - last_failure_time >= recovery_timeout

\* _on_success
_on_success(b) == [b EXCEPT !.failure_count = 0, !.state = "CLOSED"]

\* _on_failure
_on_failure(b, time, failure_threshold) ==
    [b EXCEPT !.failure_count = @ + 1,
              !.last_failure_time = time,
              !.state = IF b.failure_count + 1 >= failure_threshold THEN "OPEN" ELSE @]

\* the threads blocked on `with self.lock`
Waiting == {c \in Callers : caller[c].pc = "waiting"}

\* the threads inside func(*args, **kwargs)
InFunc == {c \in Callers : caller[c].pc = "in_func"}

\* CircuitBreaker.__init__
InitBreaker ==
    /\ breaker_config \in [failure_threshold : 1..MaxThreshold,
                           recovery_timeout : 0..MaxRecoveryTimeout]
    /\ breaker = [state |-> "CLOSED", failure_count |-> 0,
                  last_failure_time |-> NoTime, lock |-> 0]
    /\ caller = [c \in Callers |-> [pc |-> "idle", result |-> "none"]]
    /\ now = 0
    /\ observed = [calls |-> 0, invocations |-> 0, consecutive_failures |-> 0,
                   probing |-> 0, probe_waiters |-> {}, probe_rejections |-> 0]

\* a breaker with the default parameters that nobody calls
BreakerIdle ==
    /\ breaker_config = [failure_threshold |-> DefaultFailureThreshold,
                         recovery_timeout |-> DefaultRecoveryTimeout]
    /\ breaker = [state |-> "CLOSED", failure_count |-> 0,
                  last_failure_time |-> NoTime, lock |-> 0]
    /\ caller = [c \in Callers |-> [pc |-> "idle", result |-> "none"]]
    /\ now = 0
    /\ observed = [calls |-> 0, invocations |-> 0, consecutive_failures |-> 0,
                   probing |-> 0, probe_waiters |-> {}, probe_rejections |-> 0]

\* an orchestrator with the default configuration on which nothing is called
OrchestratorIdle ==
    /\ pipeline_config = [max_retries |-> DefaultMaxRetries, auto_rollback |-> TRUE,
                          parallel_execution |-> TRUE]
    /\ agents = AgentNames
    /\ always_raising = {}
    /\ pipeline_runs = <<>>
    /\ agent_executions = <<>>
    /\ current_run_id = 0
    /\ pc = "idle"
    /\ stage = 0
    /\ execution_id = 0
    /\ retry_count = 0
    /\ exc = NoError
    /\ vayu_result = None
    /\ call = NewCall(0)
    /\ history = <<>>
    /\ faulty = {}

\* a thread calls wrapper(*args, **kwargs) and reaches `with self.lock`
wrapper_called(c) ==
    /\ caller[c].pc = "idle"
    /\ observed.calls < MaxBreakerCalls
    /\ caller' = [caller EXCEPT ![c] = [pc |-> "waiting", result |-> "none"]]
    /\ observed' = [observed EXCEPT !.calls = @ + 1]
    /\ UNCHANGED <<breaker_config, breaker, now>>
    /\ UNCHANGED outside_cb

\* wrapper, lines 38-47: the lock is taken; an OPEN breaker either moves to
\* HALF_OPEN or raises; otherwise func is invoked with the lock held
wrapper_enters(c) ==
    /\ caller[c].pc = "waiting"
    /\ lock_free(breaker.lock)
    /\ IF breaker.state = "OPEN"
          /\ ~_should_attempt_reset(breaker.last_failure_time, now,
                                    breaker_config.recovery_timeout)
       THEN /\ caller' = [caller EXCEPT ![c] = [pc |-> "idle", result |-> "circuit_open"]]
            /\ UNCHANGED breaker
            /\ observed' = [observed EXCEPT
                               !.probe_waiters = @ \ {c},
                               !.probe_rejections = IF c \in observed.probe_waiters
                                                    THEN @ + 1 ELSE @]
       ELSE /\ caller' = [caller EXCEPT ![c].pc = "in_func"]
            /\ breaker' = [breaker EXCEPT !.lock = c,
                                          !.state = IF @ = "OPEN" THEN "HALF_OPEN" ELSE @]
            /\ observed' = [observed EXCEPT
                               !.invocations = @ + 1,
                               !.probing = IF breaker.state = "OPEN" THEN c ELSE @,
                               !.probe_waiters = @ \ {c}]
    /\ UNCHANGED <<breaker_config, now>>
    /\ UNCHANGED outside_cb

\* wrapper, lines 47-49: func returns, _on_success, the lock is released
func_returns(c) ==
    /\ caller[c].pc = "in_func"
    /\ breaker' = [_on_success(breaker) EXCEPT !.lock = 0]
    /\ caller' = [caller EXCEPT ![c] = [pc |-> "idle", result |-> "returned"]]
    /\ observed' = [observed EXCEPT !.consecutive_failures = 0,
                                    !.probing = IF @ = c THEN 0 ELSE @,
                                    !.probe_waiters = {}]
    /\ UNCHANGED <<breaker_config, now>>
    /\ UNCHANGED outside_cb

\* wrapper, lines 51-53: func raises an expected_exception, _on_failure, the
\* lock is released and the exception is re-raised
func_raises(c) ==
    /\ caller[c].pc = "in_func"
    /\ breaker' = [_on_failure(breaker, now, breaker_config.failure_threshold)
                      EXCEPT !.lock = 0]
    /\ caller' = [caller EXCEPT ![c] = [pc |-> "idle", result |-> "raised"]]
    /\ observed' = [observed EXCEPT
                       !.consecutive_failures = @ + 1,
                       !.probing = IF @ = c THEN 0 ELSE @,
                       !.probe_waiters = IF observed.probing = c THEN Waiting ELSE @]
    /\ UNCHANGED <<breaker_config, now>>
    /\ UNCHANGED outside_cb

\* wrapper: func raises an exception that is not an expected_exception; only the
\* lock is released
func_raises_unexpected(c) ==
    /\ caller[c].pc = "in_func"
    /\ breaker' = [breaker EXCEPT !.lock = 0]
    /\ caller' = [caller EXCEPT ![c] = [pc |-> "idle", result |-> "raised_unexpected"]]
    /\ observed' = [observed EXCEPT !.probing = IF @ = c THEN 0 ELSE @]
    /\ UNCHANGED <<breaker_config, now>>
    /\ UNCHANGED outside_cb

\* time passes
tick ==
    /\ now < MaxTime
    /\ now' = now + 1
    /\ UNCHANGED <<breaker_config, breaker, caller, observed>>
    /\ UNCHANGED outside_cb

----------------------------------------------------------------------------
(* BulkheadIsolation *)

BulkheadCallers == 1..NumBulkheadCallers

\* the names bound at module level in src/utils/resilience.py: its imports and
\* the classes and functions it defines
resilience_globals ==
    {"time", "threading", "logging", "Callable", "Any", "Dict", "Optional",
     "wraps", "Enum", "asyncio", "datetime", "timedelta", "logger",
     "CircuitBreakerState", "CircuitBreaker", "RetryPolicy", "Timeout",
     "BulkheadIsolation", "HealthChecker", "ErrorRecovery",
     "circuit_breaker", "retry", "timeout", "bulkhead"}

\* `raise <class_name>(<argument>, ...)` evaluated in resilience.py: the exception
\* that propagates, as <<kind, first argument>>
raise_in_resilience(class_name, argument) ==
    IF class_name \in resilience_globals
    THEN <<class_name, argument>>
    ELSE <<"NameError", class_name>>

\* a finally clause that gives no permit back
semaphore_release_skipped(permits) == permits

\* wrapper, lines 170-171: finally: self.semaphore.release()
semaphore_release(permits) == permits + 1

\* the threads inside func(*args, **kwargs) of the bulkhead wrapper
InProgress == {t \in BulkheadCallers : bh_caller[t].pc = "in_func"}

\* BulkheadIsolation.__init__
InitBulkhead ==
    /\ max_concurrent \in 0..MaxConcurrentBound
    /\ semaphore = max_concurrent
    /\ bh_caller = [t \in BulkheadCallers |-> [pc |-> "idle", result |-> <<"none", "">>]]
    /\ bh_observed = [calls |-> 0, invocations |-> 0, caller |-> 0]

\* a bulkhead with the default parameter that nobody calls
BulkheadIdle ==
    /\ max_concurrent = DefaultMaxConcurrent
    /\ semaphore = DefaultMaxConcurrent
    /\ bh_caller = [t \in BulkheadCallers |-> [pc |-> "idle", result |-> <<"none", "">>]]
    /\ bh_observed = [calls |-> 0, invocations |-> 0, caller |-> 0]

\* wrapper, lines 161-169: self.semaphore.acquire(blocking=False); without a
\* permit the raise statement is evaluated, with one func is invoked
bulkhead_wrapper(t) ==
    /\ bh_caller[t].pc = "idle"
    /\ bh_observed.calls < MaxBulkheadCalls
    /\ LET acquired == semaphore > 0 IN
       IF ~acquired
       THEN /\ bh_caller' = [bh_caller EXCEPT ![t].result =
                                raise_in_resilience("ResourceExhaustionError", "thread_pool")]
            /\ bh_observed' = [bh_observed EXCEPT !.calls = @ + 1, !.caller = t]
            /\ UNCHANGED semaphore
       ELSE /\ semaphore' = semaphore - 1
            /\ bh_caller' = [bh_caller EXCEPT ![t] = [pc |-> "in_func", result |-> <<"none", "">>]]
            /\ bh_observed' = [bh_observed EXCEPT !.calls = @ + 1, !.invocations = @ + 1,
                                                 !.caller = t]
    /\ UNCHANGED max_concurrent
    /\ UNCHANGED outside_bh

\* wrapper, lines 168-171: func returns; finally: self.semaphore.release()
bulkhead_func_returns(t) ==
    /\ bh_caller[t].pc = "in_func"
    /\ semaphore' = semaphore_release(semaphore)
    /\ bh_caller' = [bh_caller EXCEPT ![t] = [pc |-> "idle", result |-> <<"returned", "">>]]
    /\ UNCHANGED <<max_concurrent, bh_observed>>
    /\ UNCHANGED outside_bh

\* wrapper, lines 168-171: func raises; finally: self.semaphore.release()
bulkhead_func_raises(t) ==
    /\ bh_caller[t].pc = "in_func"
    /\ semaphore' = semaphore_release(semaphore)
    /\ bh_caller' = [bh_caller EXCEPT ![t] = [pc |-> "idle", result |-> <<"func_error", "">>]]
    /\ UNCHANGED <<max_concurrent, bh_observed>>
    /\ UNCHANGED outside_bh

----------------------------------------------------------------------------
(* _execute_pipeline_sequential: the data passed from stage to stage.  A      *)
(* mapping is modelled by its set of keys, {**a, **b} by the union, and the   *)
(* input recorded by create_agent_execution, json.dumps(input_data), by the   *)
(* keys of the JSON object.                                                   *)

\* the keys of project_data
project_data == {"type", "path"}

SharedKeyNames == <<"status", "timestamp", "recommendations">>

\* the keys a result may hold besides the agent's own
SharedKeys == {SharedKeyNames[i] : i \in 1..MaxSharedKeys}

\* the key sets of the results agent.execute may return
Results(agent_name) ==
    {{}, {agent_name}} \cup {{agent_name, k} : k \in SharedKeys}

\* the input recorded for a stage that was executed
input_of(recorded, agent_name) ==
    LET i == CHOOSE i \in DOMAIN recorded : recorded[i].agent_name = agent_name
    IN recorded[i].input_data

\* the result of a stage that was executed
result_of(recorded, agent_name) ==
    LET i == CHOOSE i \in DOMAIN recorded : recorded[i].agent_name = agent_name
    IN recorded[i].result

\* a stage input built from the previous stage only
stage_input_from_previous(agent_name, recorded) ==
    IF recorded = <<>> THEN project_data
    ELSE project_data \cup recorded[Len(recorded)].result

\* lines 127-160: the input each stage is called with
stage_input(agent_name, recorded) ==
    CASE agent_name = "varuna" -> project_data
      [] agent_name = "agni" ->
            input_of(recorded, "varuna") \cup result_of(recorded, "varuna")
      [] agent_name = "yama" ->
            input_of(recorded, "agni") \cup result_of(recorded, "agni")
      [] agent_name = "terraform" ->
            input_of(recorded, "yama") \cup result_of(recorded, "yama")
               \cup {"cloud_credentials"}
      [] agent_name = "vayu" ->
            input_of(recorded, "yama") \cup result_of(recorded, "yama")
               \cup result_of(recorded, "terraform")
      [] agent_name = "hanuman" ->
            input_of(recorded, "vayu") \cup result_of(recorded, "vayu")
      [] agent_name = "krishna" ->
            input_of(recorded, "hanuman") \cup result_of(recorded, "hanuman")
               \cup {"all_results"}
      [] agent_name = "observability" ->
            input_of(recorded, "krishna") \cup result_of(recorded, "krishna")
      [] agent_name = "optimization" ->
            input_of(recorded, "observability") \cup result_of(recorded, "observability")

\* the start of _execute_pipeline_sequential
InitSequential ==
    /\ seq_pc = 1
    /\ seq_recorded = <<>>

\* no sequential run is made
SequentialIdle ==
    /\ seq_pc = 0
    /\ seq_recorded = <<>>

\* one stage: its input is built and recorded, agent.execute returns a result
sequential_stage_returns ==
    /\ seq_pc \in DOMAIN SequentialStages
    /\ LET agent_name == SequentialStages[seq_pc] IN
       \E result \in Results(agent_name), deployment_status \in {"success", "blocked"} :
          /\ agent_name # "vayu" => deployment_status = "success"
          /\ seq_recorded' = Append(seq_recorded,
                                    [agent_name |-> agent_name,
                                     input_data |-> stage_input(agent_name, seq_recorded),
                                     result |-> result,
                                     deployment_status |-> deployment_status])
          /\ seq_pc' = IF agent_name = "krishna"
                          /\ seq_recorded[5].deployment_status # "success"
                       THEN 0
                       ELSE IF seq_pc = Len(SequentialStages) THEN 0 ELSE seq_pc + 1
    /\ UNCHANGED outside_seq

\* one stage: its input is built and recorded, the stage exhausts its retries
sequential_stage_raises ==
    /\ seq_pc \in DOMAIN SequentialStages
    /\ LET agent_name == SequentialStages[seq_pc] IN
       seq_recorded' = Append(seq_recorded,
                              [agent_name |-> agent_name,
                               input_data |-> stage_input(agent_name, seq_recorded),
                               result |-> {},
                               deployment_status |-> "none"])
    /\ seq_pc' = 0
    /\ UNCHANGED outside_seq

----------------------------------------------------------------------------
(* DatabaseManager: the tables with their foreign keys.  Every child table    *)
(* declares FOREIGN KEY (pipeline_run_id) REFERENCES pipeline_runs (id) ON    *)
(* DELETE CASCADE; SQLite enforces foreign keys on a connection only when     *)
(* PRAGMA foreign_keys is ON for it.                                          *)

ChildTables == {"agent_executions", "security_findings", "performance_metrics",
                "build_artifacts"}

\* the ids of the rows of pipeline_runs
RunIds(runs) == {r.id : r \in runs}

\* DELETE FROM pipeline_runs of the rows `deleted` on a connection whose PRAGMA
\* foreign_keys is `foreign_keys`: the child rows that remain
delete_runs(foreign_keys, runs, child_rows, deleted) ==
    IF foreign_keys
    THEN {c \in child_rows : c.pipeline_run_id \notin deleted}
    ELSE child_rows

\* DatabaseManager.__init__ / init_database: empty tables.  get_connection
\* issues no PRAGMA, so foreign_keys is the default of the SQLite library: OFF,
\* unless the library was compiled with SQLITE_DEFAULT_FOREIGN_KEYS=1
InitDatabase ==
    /\ db_foreign_keys \in BOOLEAN
    /\ db_pipeline_runs = {}
    /\ db_child_rows = {}
    /\ db_sequence = [t \in ChildTables \cup {"pipeline_runs"} |-> 0]

\* a database on which no statement is executed
DatabaseIdle ==
    /\ db_foreign_keys = FALSE
    /\ db_pipeline_runs = {}
    /\ db_child_rows = {}
    /\ db_sequence = [t \in ChildTables \cup {"pipeline_runs"} |-> 0]

\* create_pipeline_run: INSERT INTO pipeline_runs, id from AUTOINCREMENT
db_create_pipeline_run ==
    /\ db_sequence["pipeline_runs"] < MaxDbRuns
    /\ db_sequence' = [db_sequence EXCEPT !["pipeline_runs"] = @ + 1]
    /\ db_pipeline_runs' = db_pipeline_runs \cup
                              {[id |-> db_sequence'["pipeline_runs"], old |-> FALSE]}
    /\ UNCHANGED <<db_foreign_keys, db_child_rows>>
    /\ UNCHANGED outside_db

\* INSERT INTO <table> (pipeline_run_id, ...): with foreign keys enforced the
\* statement fails unless the run exists
insert_child(table, pipeline_run_id) ==
    /\ Cardinality(db_child_rows) < MaxDbChildren
    /\ db_foreign_keys => pipeline_run_id \in RunIds(db_pipeline_runs)
    /\ db_sequence' = [db_sequence EXCEPT ![table] = @ + 1]
    /\ db_child_rows' = db_child_rows \cup
                           {[table |-> table, id |-> db_sequence'[table],
                             pipeline_run_id |-> pipeline_run_id]}
    /\ UNCHANGED <<db_foreign_keys, db_pipeline_runs>>
    /\ UNCHANGED outside_db

\* create_agent_execution(pipeline_run_id, ...)
db_create_agent_execution(pipeline_run_id) ==
    insert_child("agent_executions", pipeline_run_id)

\* add_security_finding(pipeline_run_id, ...)
add_security_finding(pipeline_run_id) ==
    insert_child("security_findings", pipeline_run_id)

\* add_performance_metric(pipeline_run_id, ...)
add_performance_metric(pipeline_run_id) ==
    insert_child("performance_metrics", pipeline_run_id)

\* add_build_artifact(pipeline_run_id, ...)
add_build_artifact(pipeline_run_id) ==
    insert_child("build_artifacts", pipeline_run_id)

\* time passes: created_at of a run becomes older than days_to_keep days
run_gets_old(run_id) ==
    /\ [id |-> run_id, old |-> FALSE] \in db_pipeline_runs
    /\ db_pipeline_runs' = (db_pipeline_runs \ {[id |-> run_id, old |-> FALSE]})
                              \cup {[id |-> run_id, old |-> TRUE]}
    /\ UNCHANGED <<db_foreign_keys, db_child_rows, db_sequence>>
    /\ UNCHANGED outside_db

\* cleanup_old_data: DELETE FROM pipeline_runs WHERE created_at < now - days_to_keep
cleanup_old_data ==
    /\ LET deleted == {r.id : r \in {x \in db_pipeline_runs : x.old}} IN
       /\ deleted # {}
       /\ db_pipeline_runs' = {r \in db_pipeline_runs : ~r.old}
       /\ db_child_rows' = delete_runs(db_foreign_keys, db_pipeline_runs,
                                       db_child_rows, deleted)
    /\ UNCHANGED <<db_foreign_keys, db_sequence>>
    /\ UNCHANGED outside_db

----------------------------------------------------------------------------
(* A sequential run with the security, deploy and governance agents of         *)
(* src/agents: YamaAgent, VayuAgent, KrishnaAgent.  A mapping is a function    *)
(* from its keys to its values.                                               *)

\* {}
EmptyDict == [k \in {} |-> None]

\* d.get(key, default)
get(d, key, default) == IF key \in DOMAIN d THEN d[key] ELSE default

\* {**a, **b}
merge(a, b) == [k \in DOMAIN a \cup DOMAIN b |-> IF k \in DOMAIN b THEN b[k] ELSE a[k]]

\* `not d` for a mapping
empty(d) == DOMAIN d = {}

\* YamaAgent.execute: the result for a scan that reports risk_score
yama_execute(input_data, risk_score) ==
    [status |-> "completed",
     agent_name |-> "Yama",
     deployment_decision |-> [approved |-> risk_score < ApprovalRiskLimit,
                              risk_score |-> risk_score],
     next_agent |-> IF risk_score < ApprovalRiskLimit THEN "Vayu" ELSE "Krishna"]

\* VayuAgent.execute, lines 364-374: is the deployment let through
vayu_approved(input_data) ==
    get(get(input_data, "deployment_decision", EmptyDict), "approved", FALSE)

\* VayuAgent.execute: the result
vayu_execute(input_data) ==
    IF ~vayu_approved(input_data)
    THEN [status |-> "blocked",
          agent_name |-> "Vayu",
          reason |-> "Deployment blocked by security assessment",
          next_agent |-> "Krishna"]
    ELSE [status |-> "completed",
          agent_name |-> "Vayu",
          infrastructure |-> "provisioned",
          deployment |-> "deployed",
          monitoring |-> "configured"]

\* GovernanceReviewTool._assess_*_results: the quality gate of one agent's result
assess(agent_name, result) ==
    IF empty(result) THEN [status |-> "failed", score |-> 0]
    ELSE CASE agent_name = "varuna" ->
                \* potential_issues is modelled by its length
                LET analysis == get(result, "analysis", EmptyDict) IN
                [status |-> "passed",
                 score |-> IF get(analysis, "potential_issues", 0) > 5 THEN 75 ELSE 85]
           [] agent_name = "agni" ->
                LET build_summary == get(result, "build_summary", EmptyDict) IN
                [status |-> "passed",
                 score |-> IF get(build_summary, "security_hardened", FALSE) THEN 90 ELSE 75]
           [] agent_name = "yama" ->
                LET decision == get(result, "deployment_decision", EmptyDict)
                    risk_score == get(decision, "risk_score", 100) IN
                [status |-> IF get(decision, "approved", FALSE) THEN "passed" ELSE "failed",
                 score |-> IF risk_score > 100 THEN 0 ELSE 100 - risk_score]
           [] agent_name = "vayu" ->
                IF get(result, "status", None) = "blocked"
                THEN [status |-> "blocked", score |-> 0]
                ELSE [status |-> "passed", score |-> 88]
           [] agent_name = "hanuman" ->
                LET test_summary == get(result, "test_summary", EmptyDict) IN
                [status |-> IF get(test_summary, "tests_passed", FALSE)
                            THEN "passed" ELSE "failed",
                 score |-> get(test_summary, "overall_score", 0)]

GateAgents == {"varuna", "agni", "yama", "vayu", "hanuman"}

RECURSIVE score_sum(_, _)
score_sum(quality_gates, gates) ==
    IF gates = {} THEN 0
    ELSE LET g == CHOOSE g \in gates : TRUE
         IN quality_gates[g].score + score_sum(quality_gates, gates \ {g})

\* GovernanceReviewTool._make_final_decision
_make_final_decision(quality_gates) ==
    IF \E g \in DOMAIN quality_gates : quality_gates[g].status # "passed"
    THEN "REJECTED - Failed quality gates"
    ELSE LET total == score_sum(quality_gates, DOMAIN quality_gates)
             n == Cardinality(DOMAIN quality_gates) IN
         IF total >= 85 * n THEN "APPROVED - All quality gates passed with excellent scores"
         ELSE IF total >= 75 * n THEN "APPROVED - All quality gates passed with good scores"
         ELSE IF total >= 65 * n
              THEN "APPROVED WITH CONDITIONS - Quality gates passed but improvements needed"
              ELSE "REJECTED - Quality scores below acceptable threshold"

\* "APPROVED" in decision
contains_APPROVED(decision) ==
    decision \in {"APPROVED - All quality gates passed with excellent scores",
                  "APPROVED - All quality gates passed with good scores",
                  "APPROVED WITH CONDITIONS - Quality gates passed but improvements needed"}

\* KrishnaAgent.execute: the result
krishna_execute(input_data) ==
    LET agent_results == get(input_data, "agent_results", EmptyDict)
        quality_gates == [a \in GateAgents |-> assess(a, get(agent_results, a, EmptyDict))]
        decision == _make_final_decision(quality_gates) IN
    [status |-> "completed",
     agent_name |-> "Krishna",
     final_decision |-> [decision |-> decision, approved |-> contains_APPROVED(decision)]]

\* the result of an agent that is not looked into here
completed_result(name) == [status |-> "completed", agent_name |-> name]

\* the run is created and marked running, the code analysis and build stages
\* have returned; the scan will report any risk score
InitGovernance ==
    /\ gov_pc = "yama"
    /\ gov_risk_score \in 0..MaxRiskScore
    /\ gov_locals = [yama_input |->
                        merge(merge([type |-> "local", path |-> "/tmp/project"],
                                    completed_result("Varuna")),
                              completed_result("Agni"))]
    /\ gov_run_status = "running"
    /\ gov_deployments = 0

\* no such run is made
GovernanceIdle ==
    /\ gov_pc = "idle"
    /\ gov_risk_score = 0
    /\ gov_locals = EmptyDict
    /\ gov_run_status = "pending"
    /\ gov_deployments = 0

\* orchestrator.py lines 134-136: the security stage
gov_yama ==
    /\ gov_pc = "yama"
    /\ gov_locals' = merge(gov_locals,
                           [yama_result |-> yama_execute(gov_locals.yama_input,
                                                         gov_risk_score)])
    /\ gov_pc' = "terraform"
    /\ UNCHANGED <<gov_risk_score, gov_run_status, gov_deployments>>
    /\ UNCHANGED outside_gov

\* orchestrator.py lines 139-141: the infrastructure provisioning stage
gov_terraform ==
    /\ gov_pc = "terraform"
    /\ gov_locals' = merge(gov_locals,
                           [tf_result |-> merge(completed_result("Terraform"),
                                                [endpoint_url |-> "http://localhost:8000"])])
    /\ gov_pc' = "vayu"
    /\ UNCHANGED <<gov_risk_score, gov_run_status, gov_deployments>>
    /\ UNCHANGED outside_gov

\* orchestrator.py lines 143-145: the deploy stage
gov_vayu ==
    /\ gov_pc = "vayu"
    /\ LET vayu_input == merge(merge(gov_locals.yama_input, gov_locals.yama_result),
                               gov_locals.tf_result) IN
       /\ gov_locals' = merge(gov_locals, [vayu_input |-> vayu_input,
                                           vayu_result |-> vayu_execute(vayu_input)])
       /\ gov_deployments' = IF vayu_approved(vayu_input) THEN gov_deployments + 1
                             ELSE gov_deployments
    /\ gov_pc' = "hanuman"
    /\ UNCHANGED <<gov_risk_score, gov_run_status>>
    /\ UNCHANGED outside_gov

\* orchestrator.py lines 147-149: the test stage
gov_hanuman ==
    /\ gov_pc = "hanuman"
    /\ gov_locals' = merge(gov_locals,
                           [hanuman_input |-> merge(gov_locals.vayu_input,
                                                    gov_locals.vayu_result),
                            hanuman_result |-> completed_result("Hanuman")])
    /\ gov_pc' = "krishna"
    /\ UNCHANGED <<gov_risk_score, gov_run_status, gov_deployments>>
    /\ UNCHANGED outside_gov

\* orchestrator.py lines 151-155: the governance stage, then the test on
\* vayu_result.get('deployment_status')
gov_krishna ==
    /\ gov_pc = "krishna"
    /\ LET krishna_input == merge(merge(gov_locals.hanuman_input, gov_locals.hanuman_result),
                                  [all_results |-> "pipeline_results"]) IN
       gov_locals' = merge(gov_locals, [krishna_input |-> krishna_input,
                                        krishna_result |-> krishna_execute(krishna_input)])
    /\ gov_pc' = IF get(gov_locals.vayu_result, "deployment_status", None) = "success"
                 THEN "observability" ELSE "summary"
    /\ UNCHANGED <<gov_risk_score, gov_run_status, gov_deployments>>
    /\ UNCHANGED outside_gov

\* execute_pipeline, lines 90-112: the summary is made and pipeline_results
\* returned; no statement of these lines updates the run
gov_execute_pipeline_returns ==
    /\ gov_pc = "summary"
    /\ gov_pc' = "returned"
    /\ UNCHANGED <<gov_risk_score, gov_locals, gov_run_status, gov_deployments>>
    /\ UNCHANGED outside_gov

----------------------------------------------------------------------------
(* BaseAgent.execute_with_resilience: bulkhead(circuit_breaker(retry(timeout(  *)
(* the method)))), the decorators of src/utils/resilience.py applied in that   *)
(* order from the outside in.  The method's own try/except is the innermost.   *)
(* The agent's own lock (start_execution, end_execution, set_status) is not    *)
(* part of this view: an attempt is taken by how it ends.                      *)

ResilienceCallers == 1..NumResilienceCallers

\* the thread on which signal.signal may be called
MainThread == 1

\* a wrapper that takes no attempt for the last one
last_attempt_never(attempt, max_attempts) == FALSE

\* RetryPolicy wrapper: if attempt == self.max_attempts - 1
last_attempt(attempt, max_attempts) == attempt = max_attempts - 1

\* how one attempt, a call of the Timeout wrapper around the method, can end in
\* an exception: the kinds of exception that leave it.  Off the main thread
\* signal.signal raises ValueError before the method is called.  On the main
\* thread whatever the method's try block raises leaves it as AgentExecutionError
\* (lines 132-139) unless it is a ToolIntegrationError; the alarm's handler
\* raises TimeoutError where the thread is, which is outside the try block
\* while lines 98-100 or the except clause run
AttemptErrors(t) ==
    IF t = MainThread
    THEN {"AgentExecutionError", "ToolIntegrationError", "TimeoutError"}
    ELSE {"ValueError"}

\* the decorators and the agent, nobody calling
InitResilience ==
    /\ res_breaker = [state |-> "CLOSED", failure_count |-> 0,
                      last_failure_time |-> NoTime, lock |-> 0]
    /\ res_semaphore = AgentMaxConcurrent
    /\ res_now = 0
    /\ res_caller = [t \in ResilienceCallers |-> "idle"]
    /\ res_attempt = 0
    /\ res_observed = [calls |-> 0, caller |-> 0, outcome |-> "none", layer |-> "none"]

\* Bulkhead wrapper: the permit is taken without blocking, or the raise
\* statement of line 163 is evaluated
resilience_called(t) ==
    /\ res_caller[t] = "idle"
    /\ res_observed.calls < MaxResilienceCalls
    /\ IF res_semaphore = 0
       THEN /\ res_observed' =
                  [calls |-> res_observed.calls + 1, caller |-> t,
                   outcome |-> raise_in_resilience("ResourceExhaustionError",
                                                   "thread_pool")[1],
                   layer |-> "bulkhead"]
            /\ UNCHANGED <<res_semaphore, res_caller>>
       ELSE /\ res_semaphore' = res_semaphore - 1
            /\ res_caller' = [res_caller EXCEPT ![t] = "waiting"]
            /\ res_observed' = [res_observed EXCEPT !.calls = @ + 1]
    /\ UNCHANGED <<res_breaker, res_now, res_attempt>>
    /\ UNCHANGED outside_res

\* CircuitBreaker wrapper, lines 38-47: the lock is taken; an OPEN breaker
\* raises Exception("Circuit breaker OPEN ...") or moves to HALF_OPEN; the
\* RetryPolicy wrapper is entered with the lock held
resilience_enters(t) ==
    /\ res_caller[t] = "waiting"
    /\ lock_free(res_breaker.lock)
    /\ IF res_breaker.state = "OPEN"
          /\ ~_should_attempt_reset(res_breaker.last_failure_time, res_now,
                                    AgentRecoveryTimeout)
       THEN /\ res_caller' = [res_caller EXCEPT ![t] = "idle"]
            /\ res_semaphore' = res_semaphore + 1
            /\ res_observed' = [res_observed EXCEPT !.caller = t,
                                                    !.outcome = "Exception",
                                                    !.layer = "circuit_breaker"]
            /\ UNCHANGED <<res_breaker, res_attempt>>
       ELSE /\ res_caller' = [res_caller EXCEPT ![t] = "in_func"]
            /\ res_breaker' = [res_breaker EXCEPT
                                  !.lock = t,
                                  !.state = IF @ = "OPEN" THEN "HALF_OPEN" ELSE @]
            /\ res_attempt' = 0
            /\ UNCHANGED <<res_semaphore, res_observed>>
    /\ UNCHANGED res_now
    /\ UNCHANGED outside_res

\* an attempt returns the agent's result: the RetryPolicy wrapper returns it,
\* _on_success, the lock and the permit are released
resilience_attempt_returns(t) ==
    /\ res_caller[t] = "in_func"
    /\ t = MainThread
    /\ res_breaker' = [_on_success(res_breaker) EXCEPT !.lock = 0]
    /\ res_semaphore' = res_semaphore + 1
    /\ res_caller' = [res_caller EXCEPT ![t] = "idle"]
    /\ res_observed' = [res_observed EXCEPT !.caller = t, !.outcome = "returned",
                                            !.layer = "agent"]
    /\ UNCHANGED <<res_now, res_attempt>>
    /\ UNCHANGED outside_res

\* an attempt raises: the RetryPolicy wrapper sleeps and tries again, or, on the
\* last attempt, re-raises; then _on_failure, the lock and the permit are released
resilience_attempt_raises(t) ==
    /\ res_caller[t] = "in_func"
    /\ \E error \in AttemptErrors(t) :
         IF last_attempt(res_attempt, AgentMaxAttempts)
         THEN /\ res_breaker' = [_on_failure(res_breaker, res_now, AgentFailureThreshold)
                                    EXCEPT !.lock = 0]
              /\ res_semaphore' = res_semaphore + 1
              /\ res_caller' = [res_caller EXCEPT ![t] = "idle"]
              /\ res_observed' = [res_observed EXCEPT !.caller = t, !.outcome = error,
                                                      !.layer = "retry"]
              /\ UNCHANGED res_attempt
         ELSE /\ res_attempt' = res_attempt + 1
              /\ UNCHANGED <<res_breaker, res_semaphore, res_caller, res_observed>>
    /\ UNCHANGED res_now
    /\ UNCHANGED outside_res

\* time passes: one recovery timeout
resilience_time_passes ==
    /\ res_now < MaxRecoveryPeriods * AgentRecoveryTimeout
    /\ res_now' = res_now + AgentRecoveryTimeout
    /\ UNCHANGED <<res_breaker, res_semaphore, res_caller, res_attempt, res_observed>>
    /\ UNCHANGED outside_res

----------------------------------------------------------------------------
(* RetryPolicy *)

\* the classes func may raise that `except Exception` catches
CaughtClasses == {"ConnectionError", "ValueError"}

\* the classes func may raise that `except Exception` lets through
UncaughtClasses == {"KeyboardInterrupt"}

\* the values func may return
RetryResults == {"result_a", "result_b"}

\* no call of the wrapper made, for a policy of max_attempts
retry_not_called(max_attempts) ==
    /\ retry_max_attempts = max_attempts
    /\ retry_pc = "idle"
    /\ retry_attempt = 0
    /\ retry_history = << >>
    /\ retry_sleeps = << >>
    /\ retry_outcome = [kind |-> "none", value |-> "none"]

\* RetryPolicy.__init__ stores max_attempts as given
InitRetry == \E max_attempts \in 0..MaxAttemptsBound : retry_not_called(max_attempts)

RetryIdle == retry_not_called(AgentMaxAttempts)

\* wrapper: last_exception = None; for attempt in range(self.max_attempts); an
\* empty range falls through to `raise last_exception`, raising None
retry_wrapper ==
    /\ retry_pc = "idle"
    /\ retry_attempt' = 0
    /\ IF retry_max_attempts > 0
       THEN /\ retry_pc' = "attempt"
            /\ UNCHANGED retry_outcome
       ELSE /\ retry_pc' = "done"
            /\ retry_outcome' = [kind |-> "raised", value |-> <<"TypeError", 0>>]
    /\ UNCHANGED <<retry_max_attempts, retry_history, retry_sleeps>>
    /\ UNCHANGED outside_rt

\* return func(*args, **kwargs)
retry_attempt_returns ==
    /\ retry_pc = "attempt"
    /\ \E value \in RetryResults :
         /\ retry_history' = Append(retry_history, [kind |-> "returned", value |-> <<value, retry_attempt>>])
         /\ retry_outcome' = [kind |-> "returned", value |-> <<value, retry_attempt>>]
    /\ retry_pc' = "done"
    /\ UNCHANGED <<retry_max_attempts, retry_attempt, retry_sleeps>>
    /\ UNCHANGED outside_rt

\* func raises: an exception that is no Exception leaves the wrapper; the last
\* attempt re-raises; any other attempt goes on to time.sleep(delay)
retry_attempt_raises ==
    /\ retry_pc = "attempt"
    /\ \E class \in CaughtClasses \cup UncaughtClasses :
         LET e == <<class, retry_attempt>> IN
         /\ retry_history' = Append(retry_history, [kind |-> "raised", value |-> e])
         /\ IF class \in UncaughtClasses \/ last_attempt(retry_attempt, retry_max_attempts)
            THEN /\ retry_pc' = "done"
                 /\ retry_outcome' = [kind |-> "raised", value |-> e]
            ELSE /\ retry_pc' = "sleep"
                 /\ UNCHANGED retry_outcome
    /\ UNCHANGED <<retry_max_attempts, retry_attempt, retry_sleeps>>
    /\ UNCHANGED outside_rt

\* time.sleep(delay) returns and the loop goes on; when the range is used up
\* the wrapper reaches `raise last_exception`
retry_sleep_returns ==
    /\ retry_pc = "sleep"
    /\ retry_sleeps' = Append(retry_sleeps, Len(retry_history))
    /\ retry_attempt' = retry_attempt + 1
    /\ IF retry_attempt + 1 < retry_max_attempts
       THEN /\ retry_pc' = "attempt"
            /\ UNCHANGED retry_outcome
       ELSE /\ retry_pc' = "done"
            /\ retry_outcome' = [kind |-> "raised",
                                 value |-> retry_history[Len(retry_history)].value]
    /\ UNCHANGED <<retry_max_attempts, retry_history>>
    /\ UNCHANGED outside_rt

----------------------------------------------------------------------------
(* BaseAgent: the agent's lock *)

AgentThreads == 1..NumAgentThreads

\* the methods of the agent that the threads call, with their argument
AgentCalls ==
    {<<"execute_with_resilience", "none">>, <<"start_execution", "none">>,
     <<"end_execution", "completed">>, <<"end_execution", "failed">>,
     <<"set_status", "failed">>, <<"get_status", "none">>, <<"reset", "none">>}

\* a thread that is in no method of the agent
ThreadIdle(result) ==
    [op |-> "none", arg |-> "none", pc |-> "idle", via |-> "none", alarm |-> "off",
     attempt |-> 0, result |-> result, status_at_call |-> "none"]

\* `with self.lock`: threading.Lock is acquired only when nobody holds it, the
\* acquiring thread included
acquirable(lock, t) == lock = 0

\* BaseAgent.__init__: status idle, lock free
InitBaseAgent ==
    /\ ag_lock = 0
    /\ ag_status = "idle"
    /\ ag_breaker_lock = 0
    /\ ag_thread = [t \in AgentThreads |-> ThreadIdle("none")]
    /\ ag_calls = 0

\* the retry wrapper after an attempt of thread t raised error: re-raise on the
\* last attempt (the breaker's `with self.lock` is left), else call the Timeout
\* wrapper again
AttemptRaised(t, error) ==
    IF last_attempt(ag_thread[t].attempt, AgentMaxAttempts)
    THEN /\ ag_thread' = [ag_thread EXCEPT ![t] = ThreadIdle(error)]
         /\ ag_breaker_lock' = 0
    ELSE /\ ag_thread' = [ag_thread EXCEPT ![t].attempt = @ + 1, ![t].pc = "timeout",
                                           ![t].alarm = "off"]
         /\ UNCHANGED ag_breaker_lock

\* a thread calls a method of the agent
agent_called(t) ==
    /\ ag_thread[t].pc = "idle"
    /\ ag_calls < MaxAgentCalls
    /\ \E c \in AgentCalls :
         ag_thread' = [ag_thread EXCEPT ![t] =
            [op |-> c[1], arg |-> c[2],
             pc |-> IF c[1] = "execute_with_resilience" THEN "breaker" ELSE c[1],
             via |-> "direct", alarm |-> "off", attempt |-> 0, result |-> "none",
             status_at_call |-> ag_status]]
    /\ ag_calls' = ag_calls + 1
    /\ UNCHANGED <<ag_lock, ag_status, ag_breaker_lock>>
    /\ UNCHANGED outside_ag

\* execute_with_resilience, the circuit_breaker decorator: `with self.lock` of
\* the breaker, held until the call leaves the wrapper
agent_breaker_enters(t) ==
    /\ ag_thread[t].pc = "breaker"
    /\ acquirable(ag_breaker_lock, t)
    /\ ag_breaker_lock' = t
    /\ ag_thread' = [ag_thread EXCEPT ![t].pc = "timeout"]
    /\ UNCHANGED <<ag_lock, ag_status, ag_calls>>
    /\ UNCHANGED outside_ag

\* Timeout wrapper, lines 136-137: signal.signal raises ValueError off the main
\* thread; on the main thread the alarm is armed and the method body starts
agent_timeout_wrapper(t) ==
    /\ ag_thread[t].pc = "timeout"
    /\ IF t # MainThread
       THEN AttemptRaised(t, "ValueError")
       ELSE /\ ag_thread' = [ag_thread EXCEPT ![t].pc = "metrics", ![t].alarm = "armed"]
            /\ UNCHANGED ag_breaker_lock
    /\ UNCHANGED <<ag_lock, ag_status, ag_calls>>
    /\ UNCHANGED outside_ag

\* execute_with_resilience, lines 98-100: `with self.lock` around the metrics
\* update, then the try block starts with self.start_execution()
agent_metrics_locked(t) ==
    /\ ag_thread[t].pc = "metrics"
    /\ acquirable(ag_lock, t)
    /\ ag_thread' = [ag_thread EXCEPT ![t].pc = "start_execution"]
    /\ UNCHANGED <<ag_lock, ag_status, ag_breaker_lock, ag_calls>>
    /\ UNCHANGED outside_ag

\* start_execution, lines 257-259: the lock is taken and, with the lock held,
\* self.set_status("running", ...) is called
start_execution(t) ==
    /\ ag_thread[t].pc = "start_execution"
    /\ acquirable(ag_lock, t)
    /\ ag_lock' = t
    /\ ag_thread' = [ag_thread EXCEPT ![t].pc = "set_status", ![t].arg = "running",
                                      ![t].via = "start_execution"]
    /\ UNCHANGED <<ag_status, ag_breaker_lock, ag_calls>>
    /\ UNCHANGED outside_ag

\* end_execution, lines 263-271: the lock is taken and, with the lock held,
\* self.set_status(status, ...) is called
end_execution(t) ==
    /\ ag_thread[t].pc = "end_execution"
    /\ acquirable(ag_lock, t)
    /\ ag_lock' = t
    /\ ag_thread' = [ag_thread EXCEPT ![t].pc = "set_status", ![t].via = "end_execution"]
    /\ UNCHANGED <<ag_status, ag_breaker_lock, ag_calls>>
    /\ UNCHANGED outside_ag

\* set_status, lines 217-219: the lock is taken, self.status assigned, the lock
\* released.  Called from start_execution or end_execution it returns into
\* their with block, which releases the lock they hold
set_status(t) ==
    /\ ag_thread[t].pc = "set_status"
    /\ acquirable(ag_lock, t)
    /\ ag_status' = ag_thread[t].arg
    /\ ag_lock' = 0
    /\ ag_thread' = [ag_thread EXCEPT ![t] =
          IF ag_thread[t].op = ag_thread[t].via \/ ag_thread[t].via = "direct"
          THEN ThreadIdle("returned")
          ELSE [@ EXCEPT !.pc = "after_" \o ag_thread[t].via]]
    /\ UNCHANGED <<ag_breaker_lock, ag_calls>>
    /\ UNCHANGED outside_ag

\* get_status, lines 238-247
get_status(t) ==
    /\ ag_thread[t].pc = "get_status"
    /\ acquirable(ag_lock, t)
    /\ ag_thread' = [ag_thread EXCEPT ![t] = ThreadIdle("returned")]
    /\ UNCHANGED <<ag_lock, ag_status, ag_breaker_lock, ag_calls>>
    /\ UNCHANGED outside_ag

\* reset, lines 275-280
reset(t) ==
    /\ ag_thread[t].pc = "reset"
    /\ acquirable(ag_lock, t)
    /\ ag_status' = "idle"
    /\ ag_thread' = [ag_thread EXCEPT ![t] = ThreadIdle("returned")]
    /\ UNCHANGED <<ag_lock, ag_breaker_lock, ag_calls>>
    /\ UNCHANGED outside_ag

\* thread t waits for the agent's lock and cannot get it
BlockedOnAgentLock(t) ==
    /\ ag_thread[t].pc \in {"metrics", "start_execution", "set_status"}
    /\ ~acquirable(ag_lock, t)

\* Timeout wrapper, lines 133-134: the alarm goes off while the main thread is
\* blocked in an acquire, and timeout_handler raises TimeoutError there.  Before
\* the try block it leaves the method; inside, the with block of start_execution
\* releases the lock it holds and the except branch at line 124 is entered
agent_alarm_fires(t) ==
    /\ ag_thread[t].alarm = "armed"
    /\ BlockedOnAgentLock(t)
    /\ IF ag_thread[t].pc = "metrics"
       THEN /\ AttemptRaised(t, "TimeoutError")
            /\ UNCHANGED ag_lock
       ELSE /\ ag_thread' = [ag_thread EXCEPT ![t].pc = "failure_count", ![t].alarm = "off",
                                              ![t].via = "direct"]
            /\ ag_lock' = IF ag_lock = t THEN 0 ELSE ag_lock
            /\ UNCHANGED ag_breaker_lock
    /\ UNCHANGED <<ag_status, ag_calls>>
    /\ UNCHANGED outside_ag

\* execute_with_resilience, lines 125-126: `with self.lock` around failure_count
agent_failure_count_locked(t) ==
    /\ ag_thread[t].pc = "failure_count"
    /\ acquirable(ag_lock, t)
    /\ ag_thread' = [ag_thread EXCEPT ![t].pc = "add_error"]
    /\ UNCHANGED <<ag_lock, ag_status, ag_breaker_lock, ag_calls>>
    /\ UNCHANGED outside_ag

\* add_error, lines 231-232, then line 129: self.end_execution(False)
add_error(t) ==
    /\ ag_thread[t].pc = "add_error"
    /\ acquirable(ag_lock, t)
    /\ ag_thread' = [ag_thread EXCEPT ![t].pc = "end_execution", ![t].arg = "failed"]
    /\ UNCHANGED <<ag_lock, ag_status, ag_breaker_lock, ag_calls>>
    /\ UNCHANGED outside_ag

\* an agent that no thread calls
AgentIdle == InitBaseAgent

----------------------------------------------------------------------------
(* AgentOrchestrator: the workflow graph *)

\* _build_workflow: the entry point and the edges, varuna to krishna, then END
WorkflowNodes == <<"varuna", "agni", "yama", "vayu", "hanuman", "krishna">>

\* _run_<agent>: the value assigned to state.current_step when execute returns
next_step(node) ==
    IF node = Len(WorkflowNodes) THEN "completed" ELSE WorkflowNodes[node + 1]

\* _run_krishna, line 197: state.pipeline_status = PipelineStatus.SUCCESS
status_after_krishna(pipeline_status) == "success"

\* no run made yet
InitCore ==
    /\ core_node = 0
    /\ core_state = [pipeline_status |-> "idle", current_step |-> "none", error_log |-> <<>>]
    /\ core_returned = "none"

CoreIdle == InitCore

\* execute_pipeline, lines 95-110: the initial state, RUNNING at step varuna
core_execute_pipeline ==
    /\ core_node = 0
    /\ core_state' = [pipeline_status |-> "running", current_step |-> "varuna",
                      error_log |-> <<>>]
    /\ core_node' = 1
    /\ UNCHANGED core_returned
    /\ UNCHANGED outside_core

\* _run_<agent>, try branch: execute returns, current_step moves on, and
\* _run_krishna sets pipeline_status; the edge leads to the next node
core_run_node_returns ==
    /\ core_node \in 1..Len(WorkflowNodes)
    /\ core_state' = [core_state EXCEPT
                        !.current_step = next_step(core_node),
                        !.pipeline_status = IF WorkflowNodes[core_node] = "krishna"
                                            THEN status_after_krishna(@) ELSE @]
    /\ core_node' = core_node + 1
    /\ UNCHANGED core_returned
    /\ UNCHANGED outside_core

\* _run_<agent>, except branch: execute raises, the error is logged and
\* pipeline_status set to FAILED; the edge still leads to the next node
core_run_node_raises ==
    /\ core_node \in 1..Len(WorkflowNodes)
    /\ core_state' = [core_state EXCEPT
                        !.error_log = Append(@, WorkflowNodes[core_node]),
                        !.pipeline_status = "failed"]
    /\ core_node' = core_node + 1
    /\ UNCHANGED core_returned
    /\ UNCHANGED outside_core

\* execute_pipeline, lines 110-121: the workflow reached END; the result is
\* returned, or update_pipeline_state raises and the state is returned FAILED
core_workflow_ends ==
    /\ core_node = Len(WorkflowNodes) + 1
    /\ \E update_raises \in BOOLEAN :
         IF update_raises
         THEN /\ core_state' = [core_state EXCEPT
                                  !.pipeline_status = "failed",
                                  !.error_log = Append(@, "update_pipeline_state")]
              /\ core_returned' = "failed"
         ELSE /\ UNCHANGED core_state
              /\ core_returned' = core_state.pipeline_status
    /\ core_node' = Len(WorkflowNodes) + 2
    /\ UNCHANGED outside_core

----------------------------------------------------------------------------
(* DatabaseManager: the connection mutex *)

DbThreads == 1..NumDbThreads

\* the operations the threads call, with the status argument of the updates
DbCalls ==
    {<<"create_pipeline_run", "none">>, <<"get_pipeline_run", "none">>,
     <<"update_pipeline_run", "running">>, <<"update_pipeline_run", "completed">>,
     <<"update_pipeline_run", "failed">>, <<"update_agent_execution", "running">>}

\* a thread that is in no operation
DbThreadIdle == [op |-> "none", status |-> "none", pc |-> "idle", frame |-> "none"]

\* update_pipeline_run, line 227: `status == 'running' and not
\* self.get_pipeline_run(run_id)...` calls get_pipeline_run inside the with block
calls_get_pipeline_run(op, status) == op = "update_pipeline_run" /\ status = "running"

\* DatabaseManager.__init__ after init_database: lock free, no connection open
InitConnectionMutex ==
    /\ dbl_lock = 0
    /\ dbl_connections = 0
    /\ dbl_thread = [t \in DbThreads |-> DbThreadIdle]
    /\ dbl_calls = 0

DbLockIdle == InitConnectionMutex

\* a thread calls an operation, which starts with `with self.get_connection()`
dbm_called(t) ==
    /\ dbl_thread[t].pc = "idle"
    /\ dbl_calls < MaxDbLockCalls
    /\ \E c \in DbCalls :
         dbl_thread' = [dbl_thread EXCEPT ![t] =
            [op |-> c[1], status |-> c[2], pc |-> "get_connection", frame |-> "outer"]]
    /\ dbl_calls' = dbl_calls + 1
    /\ UNCHANGED <<dbl_lock, dbl_connections>>
    /\ UNCHANGED outside_dbl

\* get_connection, lines 28-32: `with self.lock` is entered when nobody holds
\* the lock, the connection is opened and yielded
get_connection(t) ==
    /\ dbl_thread[t].pc = "get_connection"
    /\ acquirable(dbl_lock, t)
    /\ dbl_lock' = t
    /\ dbl_connections' = dbl_connections + 1
    /\ dbl_thread' = [dbl_thread EXCEPT ![t].pc = "statement"]
    /\ UNCHANGED dbl_calls
    /\ UNCHANGED outside_dbl

\* the body of the with block: update_pipeline_run(.., 'running') first calls
\* self.get_pipeline_run with the connection open; otherwise the statement is
\* executed, the connection closed and the lock released (lines 33-34)
dbm_statement(t) ==
    /\ dbl_thread[t].pc = "statement"
    /\ IF calls_get_pipeline_run(dbl_thread[t].op, dbl_thread[t].status)
          /\ dbl_thread[t].frame = "outer"
       THEN /\ dbl_thread' = [dbl_thread EXCEPT ![t].pc = "get_connection",
                                                ![t].frame = "get_pipeline_run"]
            /\ UNCHANGED <<dbl_lock, dbl_connections>>
       ELSE /\ dbl_connections' = dbl_connections - 1
            /\ dbl_lock' = 0
            /\ dbl_thread' = [dbl_thread EXCEPT ![t] =
                  IF dbl_thread[t].frame = "get_pipeline_run"
                  THEN [@ EXCEPT !.pc = "statement", !.frame = "resumed"]
                  ELSE DbThreadIdle]
    /\ UNCHANGED dbl_calls
    /\ UNCHANGED outside_dbl

----------------------------------------------------------------------------
(* Timeout *)

\* the handlers that may be installed for SIGALRM before the wrapper is called
PreviousHandlers == {"SIG_DFL", "SIG_IGN", "handler_of_caller"}

\* wrapper, lines 139-145: signal.alarm(0) follows func inside the try block,
\* the finally clause does not cancel, so a raise leaves the alarm as it is
alarm_after_raise(alarm) == alarm

\* no call of the wrapper in progress
NoTimeoutCall == [pc |-> "idle", old_handler |-> "none", pending |-> "none"]

\* no call of the wrapper exited yet, no SIGALRM delivered outside a call
NoTimeoutExit == [count |-> 0, outcome |-> "none", handler_before |-> "none", late |-> "none"]

\* Timeout.__init__, in a process whose SIGALRM handler is any of the above
InitTimeout ==
    /\ to_seconds \in 0..MaxTimeoutSeconds
    /\ to_handler \in PreviousHandlers
    /\ to_alarm = "off"
    /\ to_call = NoTimeoutCall
    /\ to_exits = NoTimeoutExit
    /\ to_process = "running"

\* a Timeout that nobody calls
TimeoutIdle ==
    /\ to_seconds = AgentTimeoutSeconds
    /\ to_handler = "SIG_DFL"
    /\ to_alarm = "off"
    /\ to_call = NoTimeoutCall
    /\ to_exits = NoTimeoutExit
    /\ to_process = "running"

\* wrapper, line 136: old_handler = signal.signal(signal.SIGALRM, timeout_handler)
timeout_wrapper ==
    /\ to_process = "running"
    /\ to_call.pc = "idle"
    /\ to_exits.count < MaxTimeoutCalls
    /\ to_call' = [pc |-> "alarm", old_handler |-> to_handler, pending |-> "none"]
    /\ to_handler' = "timeout_handler"
    /\ UNCHANGED <<to_seconds, to_alarm, to_exits, to_process>>
    /\ UNCHANGED outside_to

\* wrapper, line 137: signal.alarm(self.seconds); with 0 seconds no alarm is set
timeout_signal_alarm ==
    /\ to_process = "running"
    /\ to_call.pc = "alarm"
    /\ to_alarm' = IF to_seconds > 0 THEN "armed" ELSE "off"
    /\ to_call' = [to_call EXCEPT !.pc = "func"]
    /\ UNCHANGED <<to_seconds, to_handler, to_exits, to_process>>
    /\ UNCHANGED outside_to

\* wrapper, line 140: func returns
timeout_func_returns ==
    /\ to_process = "running"
    /\ to_call.pc = "func"
    /\ to_call' = [to_call EXCEPT !.pc = "cancel", !.pending = "returned"]
    /\ UNCHANGED <<to_seconds, to_handler, to_alarm, to_exits, to_process>>
    /\ UNCHANGED outside_to

\* wrapper, line 140: func raises, control goes to the finally clause
timeout_func_raises ==
    /\ to_process = "running"
    /\ to_call.pc = "func"
    /\ to_call' = [to_call EXCEPT !.pc = "finally", !.pending = "func_error"]
    /\ to_alarm' = alarm_after_raise(to_alarm)
    /\ UNCHANGED <<to_seconds, to_handler, to_exits, to_process>>
    /\ UNCHANGED outside_to

\* wrapper, lines 141-142: signal.alarm(0), return result
timeout_alarm_cancelled ==
    /\ to_process = "running"
    /\ to_call.pc = "cancel"
    /\ to_alarm' = "off"
    /\ to_call' = [to_call EXCEPT !.pc = "finally"]
    /\ UNCHANGED <<to_seconds, to_handler, to_exits, to_process>>
    /\ UNCHANGED outside_to

\* wrapper, lines 143-144: finally: signal.signal(signal.SIGALRM, old_handler),
\* then the call exits
timeout_finally ==
    /\ to_process = "running"
    /\ to_call.pc = "finally"
    /\ to_handler' = to_call.old_handler
    /\ to_exits' = [to_exits EXCEPT !.count = @ + 1, !.outcome = to_call.pending,
                                    !.handler_before = to_call.old_handler]
    /\ to_call' = NoTimeoutCall
    /\ UNCHANGED <<to_seconds, to_alarm, to_process>>
    /\ UNCHANGED outside_to

\* the pending alarm goes off and SIGALRM meets the handler installed at that
\* moment.  Outside a call the handler runs in whatever the main thread is doing
\* (SIG_DFL terminates the process).  Inside a call timeout_handler raises
\* TimeoutError where the main thread is: in the try block control goes to the
\* finally clause; before the try block or inside the finally clause the
\* exception leaves the wrapper and the old handler is not restored
timeout_alarm_goes_off ==
    /\ to_process = "running"
    /\ to_alarm = "armed"
    /\ to_alarm' = "off"
    /\ CASE to_call.pc = "idle" ->
              /\ to_process' = IF to_handler = "SIG_DFL" THEN "terminated" ELSE "running"
              /\ to_exits' = [to_exits EXCEPT !.late = to_handler]
              /\ UNCHANGED to_call
         [] to_call.pc \in {"func", "cancel"} ->
              /\ to_call' = [to_call EXCEPT !.pc = "finally", !.pending = "TimeoutError"]
              /\ UNCHANGED <<to_exits, to_process>>
         [] to_call.pc \in {"alarm", "finally"} ->
              /\ to_exits' = [to_exits EXCEPT !.count = @ + 1, !.outcome = "TimeoutError",
                                              !.handler_before = to_call.old_handler]
              /\ to_call' = NoTimeoutCall
              /\ UNCHANGED to_process
    /\ UNCHANGED <<to_seconds, to_handler>>
    /\ UNCHANGED outside_to

----------------------------------------------------------------------------
(* Specifications *)

Init == InitOrchestrator /\ BreakerIdle /\ BulkheadIdle /\ SequentialIdle /\ DatabaseIdle /\ GovernanceIdle /\ InitResilience /\ RetryIdle
    /\ AgentIdle /\ CoreIdle /\ DbLockIdle /\ TimeoutIdle

Next ==
    \/ execute_pipeline
    \/ execute_pipeline_running
    \/ _execute_agent_with_persistence
    \/ attempt_running
    \/ agent_execute_returns
    \/ agent_execute_persist_raises
    \/ agent_execute_raises
    \/ retries_exhausted
    \/ parallel_executor_call
    \/ execute_pipeline_except
    \/ execute_pipeline_returns

Spec == Init /\ [][Next]_vars

InitCB == OrchestratorIdle /\ InitBreaker /\ BulkheadIdle /\ SequentialIdle /\ DatabaseIdle /\ GovernanceIdle /\ InitResilience /\ RetryIdle
    /\ AgentIdle /\ CoreIdle /\ DbLockIdle /\ TimeoutIdle

NextCB ==
    \/ \E c \in Callers : wrapper_called(c)
    \/ \E c \in Callers : wrapper_enters(c)
    \/ \E c \in Callers : func_returns(c)
    \/ \E c \in Callers : func_raises(c)
    \/ \E c \in Callers : func_raises_unexpected(c)
    \/ tick

SpecCB == InitCB /\ [][NextCB]_vars

InitBH == OrchestratorIdle /\ BreakerIdle /\ InitBulkhead /\ SequentialIdle /\ DatabaseIdle /\ GovernanceIdle /\ InitResilience /\ RetryIdle
    /\ AgentIdle /\ CoreIdle /\ DbLockIdle /\ TimeoutIdle

NextBH ==
    \/ \E t \in BulkheadCallers : bulkhead_wrapper(t)
    \/ \E t \in BulkheadCallers : bulkhead_func_returns(t)
    \/ \E t \in BulkheadCallers : bulkhead_func_raises(t)

SpecBH == InitBH /\ [][NextBH]_vars

InitSeq == OrchestratorIdle /\ BreakerIdle /\ BulkheadIdle /\ InitSequential /\ DatabaseIdle /\ GovernanceIdle /\ InitResilience /\ RetryIdle
    /\ AgentIdle /\ CoreIdle /\ DbLockIdle /\ TimeoutIdle

NextSeq ==
    \/ sequential_stage_returns
    \/ sequential_stage_raises

SpecSeq == InitSeq /\ [][NextSeq]_vars

InitDB == OrchestratorIdle /\ BreakerIdle /\ BulkheadIdle /\ SequentialIdle /\ InitDatabase /\ GovernanceIdle /\ InitResilience /\ RetryIdle
    /\ AgentIdle /\ CoreIdle /\ DbLockIdle /\ TimeoutIdle

NextDB ==
    \/ db_create_pipeline_run
    \/ \E r \in 1..MaxDbRuns : db_create_agent_execution(r)
    \/ \E r \in 1..MaxDbRuns : add_security_finding(r)
    \/ \E r \in 1..MaxDbRuns : add_performance_metric(r)
    \/ \E r \in 1..MaxDbRuns : add_build_artifact(r)
    \/ \E r \in 1..MaxDbRuns : run_gets_old(r)
    \/ cleanup_old_data

SpecDB == InitDB /\ [][NextDB]_vars

InitGov ==
    /\ OrchestratorIdle /\ BreakerIdle /\ BulkheadIdle /\ SequentialIdle /\ DatabaseIdle
    /\ InitGovernance /\ InitResilience /\ RetryIdle /\ AgentIdle /\ CoreIdle /\ DbLockIdle
    /\ TimeoutIdle

NextGov ==
    \/ gov_yama
    \/ gov_terraform
    \/ gov_vayu
    \/ gov_hanuman
    \/ gov_krishna
    \/ gov_execute_pipeline_returns

SpecGov == InitGov /\ [][NextGov]_vars

InitRes ==
    /\ OrchestratorIdle /\ BreakerIdle /\ BulkheadIdle /\ SequentialIdle /\ DatabaseIdle
    /\ GovernanceIdle /\ InitResilience /\ RetryIdle /\ AgentIdle /\ CoreIdle /\ DbLockIdle
    /\ TimeoutIdle

NextRes ==
    \/ \E t \in ResilienceCallers : resilience_called(t)
    \/ \E t \in ResilienceCallers : resilience_enters(t)
    \/ \E t \in ResilienceCallers : resilience_attempt_returns(t)
    \/ \E t \in ResilienceCallers : resilience_attempt_raises(t)
    \/ resilience_time_passes

SpecRes == InitRes /\ [][NextRes]_vars

InitRetryPolicy ==
    /\ OrchestratorIdle /\ BreakerIdle /\ BulkheadIdle /\ SequentialIdle /\ DatabaseIdle
    /\ GovernanceIdle /\ InitResilience /\ InitRetry /\ AgentIdle /\ CoreIdle /\ DbLockIdle
    /\ TimeoutIdle

NextRetryPolicy ==
    \/ retry_wrapper
    \/ retry_attempt_returns
    \/ retry_attempt_raises
    \/ retry_sleep_returns

SpecRetryPolicy == InitRetryPolicy /\ [][NextRetryPolicy]_vars

InitAgent ==
    /\ OrchestratorIdle /\ BreakerIdle /\ BulkheadIdle /\ SequentialIdle /\ DatabaseIdle
    /\ GovernanceIdle /\ InitResilience /\ RetryIdle /\ InitBaseAgent /\ CoreIdle /\ DbLockIdle
    /\ TimeoutIdle

NextAgent ==
    \/ \E t \in AgentThreads : agent_called(t)
    \/ \E t \in AgentThreads : agent_breaker_enters(t)
    \/ \E t \in AgentThreads : agent_timeout_wrapper(t)
    \/ \E t \in AgentThreads : agent_metrics_locked(t)
    \/ \E t \in AgentThreads : start_execution(t)
    \/ \E t \in AgentThreads : end_execution(t)
    \/ \E t \in AgentThreads : set_status(t)
    \/ \E t \in AgentThreads : get_status(t)
    \/ \E t \in AgentThreads : reset(t)
    \/ \E t \in AgentThreads : agent_alarm_fires(t)
    \/ \E t \in AgentThreads : agent_failure_count_locked(t)
    \/ \E t \in AgentThreads : add_error(t)

SpecAgent == InitAgent /\ [][NextAgent]_vars

\* a step of thread t inside the method it called
AgentThreadStep(t) ==
    \/ agent_breaker_enters(t)
    \/ agent_timeout_wrapper(t)
    \/ agent_metrics_locked(t)
    \/ start_execution(t)
    \/ end_execution(t)
    \/ set_status(t)
    \/ get_status(t)
    \/ reset(t)
    \/ agent_alarm_fires(t)
    \/ agent_failure_count_locked(t)
    \/ add_error(t)

\* every thread that can go on does, and an armed alarm goes off
SpecAgentFair == SpecAgent /\ \A t \in AgentThreads : WF_vars(AgentThreadStep(t))

InitCoreWorkflow ==
    /\ OrchestratorIdle /\ BreakerIdle /\ BulkheadIdle /\ SequentialIdle /\ DatabaseIdle
    /\ GovernanceIdle /\ InitResilience /\ RetryIdle /\ AgentIdle /\ InitCore /\ DbLockIdle
    /\ TimeoutIdle

NextCoreWorkflow ==
    \/ core_execute_pipeline
    \/ core_run_node_returns
    \/ core_run_node_raises
    \/ core_workflow_ends

SpecCoreWorkflow == InitCoreWorkflow /\ [][NextCoreWorkflow]_vars

InitDbLock ==
    /\ OrchestratorIdle /\ BreakerIdle /\ BulkheadIdle /\ SequentialIdle /\ DatabaseIdle
    /\ GovernanceIdle /\ InitResilience /\ RetryIdle /\ AgentIdle /\ CoreIdle /\ InitConnectionMutex
    /\ TimeoutIdle

NextDbLock ==
    \/ \E t \in DbThreads : dbm_called(t)
    \/ \E t \in DbThreads : get_connection(t)
    \/ \E t \in DbThreads : dbm_statement(t)

SpecDbLock == InitDbLock /\ [][NextDbLock]_vars

InitTimeoutWrapper ==
    /\ OrchestratorIdle /\ BreakerIdle /\ BulkheadIdle /\ SequentialIdle /\ DatabaseIdle
    /\ GovernanceIdle /\ InitResilience /\ RetryIdle /\ AgentIdle /\ CoreIdle /\ DbLockIdle /\ InitTimeout

NextTimeoutWrapper ==
    \/ timeout_wrapper
    \/ timeout_signal_alarm
    \/ timeout_func_returns
    \/ timeout_func_raises
    \/ timeout_alarm_cancelled
    \/ timeout_finally
    \/ timeout_alarm_goes_off

SpecTimeoutWrapper == InitTimeoutWrapper /\ [][NextTimeoutWrapper]_vars

----------------------------------------------------------------------------
(* Properties of execute_pipeline and _execute_agent_with_persistence *)

\* the agent_executions rows of run r
RunExecs(r) == {e \in DOMAIN agent_executions : agent_executions[e].pipeline_run_id = r}

\* the rows of run r whose stage exhausted its retries
FailedExecs(r) == {e \in RunExecs(r) : agent_executions[e].status = "failed"}

\* the execute_pipeline call that created run r is over
Finished(r) == r # call.run_id \/ pc = "done"

RunTransitions == {<<"pending", "running">>, <<"running", "completed">>,
                   <<"running", "failed">>}

\* C1: a run's status moves only pending -> running -> completed or
\* pending -> running -> failed, and once it is completed or failed no later
\* operation changes the run's status, results or error message.
C1_RunStatusForwardOnly ==
    [][\A r \in DOMAIN pipeline_runs :
          /\ pipeline_runs'[r].status # pipeline_runs[r].status
                => <<pipeline_runs[r].status, pipeline_runs'[r].status>> \in RunTransitions
          /\ pipeline_runs[r].status \in {"completed", "failed"}
                => pipeline_runs'[r] = pipeline_runs[r]]_vars

\* C2: when execute_pipeline returns normally, the run created for that call
\* is persisted as completed with the final results stored on it.
C2_ReturnedRunIsCompleted ==
    (pc = "done" /\ call.outcome = "returned")
        => /\ pipeline_runs[call.run_id].status = "completed"
           /\ pipeline_runs[call.run_id].results # None

\* C3: when a stage exhausts its retries, no agent execution is created for a
\* later stage of that run, and once the call is over the error has been raised
\* to the caller and the run is persisted as failed with a non-empty error message.
C3_ExhaustedStageFailsRun ==
    \A r \in DOMAIN pipeline_runs : \A e \in FailedExecs(r) :
        /\ \A later \in RunExecs(r) : later <= e
        /\ Finished(r) => /\ pipeline_runs[r].status = "failed"
                          /\ pipeline_runs[r].error_message # NoError
        /\ (r = call.run_id /\ pc = "done") => call.outcome = "raised"

C3_Witness ==
    /\ pc = "done"
    /\ call.outcome = "raised"
    /\ \E e \in FailedExecs(call.run_id) : agent_executions[e].agent_name = "yama"
    /\ pipeline_runs[call.run_id].status = "failed"

\* C4: with max_retries = k, an agent execution is marked failed only after
\* agent.execute was invoked exactly k+1 times and the row was marked running
\* exactly k+1 times, once before each attempt; neither count ever exceeds k+1.
C4_FailedAfterExactlyKPlusOneAttempts ==
    \A e \in DOMAIN agent_executions :
        LET k == pipeline_config.max_retries IN
        /\ history[e].execute_calls <= k + 1
        /\ history[e].running_marks <= k + 1
        /\ history[e].execute_calls <= history[e].running_marks
        /\ history[e].running_marks <= history[e].execute_calls + 1
        /\ agent_executions[e].status = "failed"
              => /\ history[e].execute_calls = k + 1
                 /\ history[e].running_marks = k + 1

C4_Witness ==
    \E e \in DOMAIN agent_executions :
        /\ pipeline_config.max_retries = 2
        /\ agent_executions[e].status = "failed"
        /\ ~history[e].persist_failed
        /\ history[e].execute_calls = 3

\* C5: every agent execution row's persisted retry_count is at most the row's
\* persisted max_retries.
C5_RetryCountWithinMaxRetries ==
    \A e \in DOMAIN agent_executions :
        agent_executions[e].retry_count <= agent_executions[e].max_retries

\* C6: when an agent's execute raises on its first j calls and succeeds on call
\* j+1, its row ends completed with retry_count = j and its output stored, and
\* the run of a call that returned is completed.
C6_RetryThenSucceedCompletesRun ==
    (pc = "done" /\ call.outcome = "returned")
        => \A e \in RunExecs(call.run_id) :
              ~history[e].persist_failed
                 => /\ agent_executions[e].status = "completed"
                    /\ agent_executions[e].retry_count = history[e].execute_calls - 1
                    /\ agent_executions[e].output_data # None
                    /\ pipeline_runs[call.run_id].status = "completed"

C8_OriginalFailureIsRaised ==
    (pc = "done" /\ call.run_id # 0)
        => \A e \in FailedExecs(call.run_id) :
              LET original == agent_error(agent_executions[e].agent_name,
                                          pipeline_config.max_retries + 1) IN
              /\ call.outcome = "raised"
              /\ call.raised = original
              /\ agent_executions[e].error_message = original
              /\ pipeline_runs[call.run_id].status = "failed"
              /\ pipeline_runs[call.run_id].error_message = original

C8_Witness ==
    /\ pc = "done"
    /\ call.rollback_outcome = "raises"
    /\ FailedExecs(call.run_id) # {}
    /\ call.raised[1] = "agent_failed"

CompletedAgents(r) ==
    {a \in agents : agent_status(agent_executions, r, a) = "completed"}

\* C19: in every state of the current run get_progress reports completed_agents
\* equal to the number of registered agents whose agent execution is completed,
\* and percentage equal to that number / total registered agents * 100.
C19_ProgressCountsCompletedAgents ==
    current_run_id # 0
        => LET progress == get_progress(agent_executions, current_run_id, agents)
               completed == Cardinality(CompletedAgents(current_run_id)) IN
           /\ progress.completed_agents = completed
           /\ progress.total_agents = Cardinality(agents)
           /\ progress.percentage.numerator * Cardinality(agents)
                 = completed * 100 * progress.percentage.denominator

\* the changes of agent_executions.status a record may make
StatusTransitions ==
    {<<"pending", "running">>, <<"running", "completed">>, <<"running", "retrying">>,
     <<"retrying", "running">>, <<"running", "failed">>}

\* agent.execute has returned for the record: its output was stored
ExecuteReturned(e) == agent_executions[e].output_data # None

\* C22: the persisted status of an agent execution changes only along
\* pending -> running, running -> completed, running -> retrying,
\* retrying -> running and running -> failed; once agent.execute has returned
\* the record stays completed and the agent is not invoked again for it, even
\* when persisting its findings, metrics or artifacts fails.
C22_AgentExecutionStatusMachine ==
    /\ [][\A e \in DOMAIN agent_executions :
            agent_executions'[e].status # agent_executions[e].status
               => <<agent_executions[e].status, agent_executions'[e].status>>
                     \in StatusTransitions]_vars
    /\ [](\A e \in DOMAIN agent_executions :
            ExecuteReturned(e) => /\ agent_executions[e].status = "completed"
                                  /\ history[e].execute_calls = 1)

\* the deploy stage and the stages after it
DeployOrLater == {"vayu", "hanuman", "krishna", "observability", "optimization"}

\* C23: with auto_rollback enabled, the rollback of the deploy agent is
\* attempted when the stage that exhausted its retries is the deploy stage or
\* a later one, and is not attempted when an earlier stage fails.
C23_RollbackFromDeployOnwards ==
    [][(pc = "exhausted" /\ auto_rollback(pipeline_config))
          => (call'.rollback = call.rollback + 1 <=> Stages[stage] \in DeployOrLater)]_vars

----------------------------------------------------------------------------
(* Properties of the parallel mode *)

\* the rows of run r for stage agent_name
StageExecs(r, agent_name) ==
    {e \in RunExecs(r) : agent_executions[e].agent_name = agent_name}

\* the rows of run r for stage agent_name that reached a terminal status
TerminalExecs(r, agent_name) ==
    {e \in StageExecs(r, agent_name) :
        agent_executions[e].status \in {"completed", "failed"}}

\* the call is over, ran in parallel mode with every agent registered, and no
\* stage outside the test/governance group failed or blocked the deployment
ParallelRunPastDeployment ==
    /\ pc = "done"
    /\ pipeline_config.parallel_execution
    /\ agents = AgentNames
    /\ call.run_id # 0
    /\ \A e \in FailedExecs(call.run_id) : agent_executions[e].agent_name \in FanOutGroup
    /\ \A e \in StageExecs(call.run_id, "vayu") :
          agent_executions[e].output_data # <<"vayu", "blocked">>

\* C14: in parallel mode, when the test stage and the governance stage both
\* exhaust their retries, both agent execution rows end failed and the run is
\* reported failed.
C14_BothFanOutFailuresPersisted ==
    (ParallelRunPastDeployment /\ always_raising = FanOutGroup)
        => /\ \A a \in FanOutGroup :
                 \E e \in StageExecs(call.run_id, a) : agent_executions[e].status = "failed"
           /\ pipeline_runs[call.run_id].status = "failed"
           /\ call.outcome = "raised"

\* C18: in parallel mode no observability or optimization stage starts, and the
\* run is not reported terminal, before both the test stage and the governance
\* stage have reached a terminal status.
C18_FanOutBarrier ==
    /\ \A r \in DOMAIN pipeline_runs :
          (/\ pipeline_config.parallel_execution
           /\ StageExecs(r, "observability") \cup StageExecs(r, "optimization") # {})
             => \A a \in FanOutGroup : TerminalExecs(r, a) # {}
    /\ (/\ ParallelRunPastDeployment
        /\ pipeline_runs[call.run_id].status \in {"completed", "failed"})
          => \A a \in FanOutGroup : TerminalExecs(call.run_id, a) # {}

\* the stages for which run r created an agent execution, in order of creation
StagesExecuted(r) ==
    LET of_run(row) == row.pipeline_run_id = r
        rows == SelectSeq(agent_executions, of_run) IN
    [i \in 1..Len(rows) |-> rows[i].agent_name]

\* the stages a sequential run executes when no stage fails: all of them when
\* the deployment succeeded, those up to governance otherwise
StagesOfSequentialRun(deployment_status) ==
    IF deployment_status = "success"
    THEN SequentialStages
    ELSE SubSeq(SequentialStages, 1, 7)

\* C24: for the same agent behaviours a parallel-mode run executes the same
\* stages in the same order as a sequential-mode run: code-analysis, build,
\* security-scan, infra-provisioning, deploy, test, governance, then
\* observability-setup and optimization if the deployment succeeded.
C24_ParallelRunsTheSequentialStages ==
    (/\ pc = "done"
     /\ pipeline_config.parallel_execution
     /\ agents = AgentNames
     /\ call.run_id # 0
     /\ FailedExecs(call.run_id) = {})
        => \E deployment_status \in {"success", "blocked"} :
              StagesExecuted(call.run_id) = StagesOfSequentialRun(deployment_status)

----------------------------------------------------------------------------
(* Properties of CircuitBreaker *)

\* the call that thread c makes goes from waiting for the lock to its outcome
Enters(c) == caller[c].pc = "waiting" /\ caller'[c].pc # "waiting"

\* recovery_timeout has not elapsed since the last counted failure
BeforeRecoveryTimeout ==
    /\ breaker.last_failure_time # NoTime
    /\ now - breaker.last_failure_time < breaker_config.recovery_timeout

\* the call thread c makes is refused: the function is not invoked and neither
\* the failure count nor the last-failure time nor the state changes
Refused(c) ==
    /\ caller'[c] = [pc |-> "idle", result |-> "circuit_open"]
    /\ observed'.invocations = observed.invocations
    /\ breaker' = breaker

\* C9: after failure_threshold consecutive failures, every call made before
\* recovery_timeout has elapsed fails at once with the circuit-open error,
\* without invoking the wrapped function and without changing the failure
\* count or the last-failure time.
C9_OpenBreakerRefusesCalls ==
    [][\A c \in Callers :
          (/\ Enters(c)
           /\ observed.consecutive_failures >= breaker_config.failure_threshold
           /\ BeforeRecoveryTimeout)
             => Refused(c)]_vars

C9_Witness ==
    /\ breaker_config.failure_threshold = 2
    /\ observed.consecutive_failures = 2
    /\ breaker.state = "OPEN"
    /\ now - breaker.last_failure_time < breaker_config.recovery_timeout
    /\ \E c \in Callers : caller[c].result = "circuit_open"

\* C10: once recovery_timeout has elapsed on an OPEN breaker, one call is let
\* through as the HALF_OPEN probe however many callers are waiting: while the
\* probe is unresolved it is the only thread inside the wrapped function, and
\* when the probe fails every caller that was waiting and gets the lock before
\* recovery_timeout elapses again is refused without invocation.
C10_SingleHalfOpenProbe ==
    /\ [](/\ Cardinality(InFunc) <= 1
          /\ observed.probing # 0 => /\ InFunc = {observed.probing}
                                     /\ breaker.state = "HALF_OPEN")
    /\ [][\A c \in Callers :
             (Enters(c) /\ c \in observed.probe_waiters /\ BeforeRecoveryTimeout)
                => Refused(c)]_vars

C10_Witness ==
    /\ observed.probe_rejections = 2
    /\ breaker.state = "OPEN"
    /\ observed.probing = 0

\* the call thread c makes leaves func and the wrapper
CallEnds(c) == caller[c].pc = "in_func" /\ caller'[c].pc = "idle"

\* the state of the breaker changes along one of the four transitions
AllowedTransition ==
    \/ /\ breaker.state = "CLOSED" /\ breaker'.state = "OPEN"
       /\ breaker'.failure_count >= breaker_config.failure_threshold
    \/ /\ breaker.state = "OPEN" /\ breaker'.state = "HALF_OPEN"
       /\ \E c \in Callers : Enters(c)
       /\ ~BeforeRecoveryTimeout
    \/ /\ breaker.state = "HALF_OPEN" /\ breaker'.state = "CLOSED"
       /\ \E c \in Callers : CallEnds(c) /\ caller'[c].result = "returned"
    \/ /\ breaker.state = "HALF_OPEN" /\ breaker'.state = "OPEN"
       /\ \E c \in Callers : CallEnds(c) /\ caller'[c].result # "returned"

\* C21: the state of the circuit breaker changes only along CLOSED -> OPEN
\* (failure count reaches failure_threshold), OPEN -> HALF_OPEN (a call after
\* recovery_timeout), HALF_OPEN -> CLOSED (probe succeeds) and HALF_OPEN -> OPEN
\* (probe fails); every success resets the failure count to 0; a call that ends
\* while the breaker is HALF_OPEN leaves that state.
C21_BreakerTransitions ==
    [][/\ breaker'.state # breaker.state => AllowedTransition
       /\ \A c \in Callers :
            /\ (CallEnds(c) /\ caller'[c].result = "returned")
                  => breaker'.failure_count = 0
            /\ (CallEnds(c) /\ breaker.state = "HALF_OPEN")
                  => breaker'.state # "HALF_OPEN"]_vars

----------------------------------------------------------------------------
(* Properties of BulkheadIsolation *)

\* C11: when max_concurrent calls of the protected operation are in progress,
\* a further call fails at once with ResourceExhaustionError naming resource
\* type "thread_pool": the caller is not left waiting, nothing is queued and the
\* protected operation is not invoked.
C11_ExcessCallsFailWithResourceExhaustion ==
    [][\A t \in BulkheadCallers :
          (/\ bh_observed'.calls = bh_observed.calls + 1
           /\ bh_observed'.caller = t
           /\ Cardinality(InProgress) = max_concurrent)
             => /\ bh_caller'[t] = [pc |-> "idle",
                                    result |-> <<"ResourceExhaustionError", "thread_pool">>]
                /\ bh_observed'.invocations = bh_observed.invocations
                /\ semaphore' = semaphore]_vars

\* the call thread t makes is rejected by the bulkhead
BulkheadRejects(t) ==
    /\ bh_observed'.calls = bh_observed.calls + 1
    /\ bh_observed'.caller = t
    /\ bh_caller'[t].pc = "idle"

\* the call thread t makes leaves func, by return or by exception
BulkheadCallEnds(t) == bh_caller[t].pc = "in_func" /\ bh_caller'[t].pc = "idle"

\* C29: at most max_concurrent protected executions are in progress; every
\* admitted call gives its permit back once, whether func returns or raises,
\* so that with no call in progress all max_concurrent permits are available;
\* a rejected call changes no permit count.
C29_BulkheadPermitsConserved ==
    /\ [](/\ Cardinality(InProgress) <= max_concurrent
          /\ semaphore = max_concurrent - Cardinality(InProgress)
          /\ InProgress = {} => semaphore = max_concurrent)
    /\ [][\A t \in BulkheadCallers :
            /\ BulkheadRejects(t) => semaphore' = semaphore
            /\ BulkheadCallEnds(t) => semaphore' = semaphore + 1]_vars

\* with two permits: two calls were admitted and a third rejected, one of the
\* admitted calls returned and the other raised, and both permits are back
C29_Witness ==
    /\ max_concurrent = 2
    /\ InProgress = {}
    /\ semaphore = 2
    /\ \E t \in BulkheadCallers : bh_caller[t].result = <<"returned", "">>
    /\ \E t \in BulkheadCallers : bh_caller[t].result = <<"func_error", "">>
    /\ \E t \in BulkheadCallers : bh_caller[t].result[2] = "ResourceExhaustionError"

----------------------------------------------------------------------------
(* Properties of the stage data flow *)

\* C12: in a sequential run the input recorded for a stage contains every key
\* of the result of every earlier stage of the run, the infra-provisioning
\* stage's result included for deploy and all later stages.
C12_InputHoldsEarlierResults ==
    \A n \in DOMAIN seq_recorded : \A earlier \in 1..(n - 1) :
        seq_recorded[earlier].result \subseteq seq_recorded[n].input_data

C12_Witness ==
    /\ Len(seq_recorded) = Len(SequentialStages)
    /\ seq_recorded[4].agent_name = "terraform"
    /\ seq_recorded[4].result = {"terraform", "status"}
    /\ seq_recorded[1].result = {"varuna"}
    /\ "terraform" \in seq_recorded[9].input_data
    /\ "varuna" \in seq_recorded[9].input_data

----------------------------------------------------------------------------
(* Properties of the keyed tables *)

\* C13: in every reachable state each row of agent_executions,
\* security_findings, performance_metrics and build_artifacts references an
\* existing pipeline run; after a run is deleted by cleanup_old_data none of its
\* child rows remain.
C13_NoOrphanChildRows ==
    \A c \in db_child_rows : c.pipeline_run_id \in RunIds(db_pipeline_runs)

----------------------------------------------------------------------------
(* Properties of the run with the real agents *)

\* C15: when the security stage reports a risk score that does not approve the
\* deployment, the deploy stage deploys nothing and returns status blocked with
\* a reason, the governance stage's final decision is not an approval, and the
\* run ends completed, not failed.
C15_HighRiskRunCompletesBlocked ==
    (gov_pc = "returned" /\ gov_risk_score >= ApprovalRiskLimit)
        => /\ gov_deployments = 0
           /\ gov_locals.vayu_result.status = "blocked"
           /\ get(gov_locals.vayu_result, "reason", "") # ""
           /\ ~gov_locals.krishna_result.final_decision.approved
           /\ gov_run_status = "completed"

----------------------------------------------------------------------------
(* Properties of execute_with_resilience *)

\* C17: every failure of execute_with_resilience, whichever layer produces it,
\* reaches the caller as an AgentExecutionError, except that a
\* ToolIntegrationError raised inside the method passes through unchanged.
C17_FailuresSurfaceAsAgentExecutionError ==
    res_observed.outcome \notin {"none", "returned"}
        => \/ res_observed.outcome = "AgentExecutionError"
           \/ res_observed.outcome = "ToolIntegrationError" /\ res_observed.layer = "retry"

----------------------------------------------------------------------------
(* Properties of RetryPolicy *)

\* the invocations of func that ended in an exception
RaisedAttempts == {i \in 1..Len(retry_history) : retry_history[i].kind = "raised"}

\* C20: a RetryPolicy-wrapped operation is invoked at most max_attempts times;
\* the first attempt that succeeds is the last one made and its result is
\* returned; when all max_attempts attempts raised, the exception raised to the
\* caller is the one of the last attempt; no sleep follows the final attempt.
C20_RetryPolicyContract ==
    LET invocations == Len(retry_history) IN
    /\ invocations <= retry_max_attempts
    /\ \A i \in 1..invocations :
         retry_history[i].kind = "returned"
           => /\ i = invocations
              /\ retry_pc = "done"
              /\ retry_outcome = [kind |-> "returned", value |-> retry_history[i].value]
    /\ retry_outcome.kind = "returned"
         => invocations > 0 /\ retry_history[invocations].kind = "returned"
    /\ (invocations > 0 /\ invocations = retry_max_attempts /\ RaisedAttempts = 1..invocations)
         => /\ retry_pc = "done"
            /\ retry_outcome = [kind |-> "raised", value |-> retry_history[invocations].value]
    /\ \A k \in 1..Len(retry_sleeps) :
         /\ retry_sleeps[k] < retry_max_attempts
         /\ retry_pc = "done" => retry_sleeps[k] < invocations

\* all of three attempts raised and the call ended with the third exception,
\* after two sleeps
C20_Witness ==
    /\ retry_max_attempts = 3
    /\ Len(retry_history) = 3
    /\ RaisedAttempts = 1..3
    /\ retry_history[1].value[1] = "ValueError"
    /\ retry_outcome = [kind |-> "raised", value |-> <<"ConnectionError", 2>>]
    /\ retry_sleeps = <<1, 2>>

----------------------------------------------------------------------------
(* Properties of the agent's lock *)

\* thread t called execute_with_resilience when the status of the agent was failed
CalledWhenFailed(t) ==
    /\ ag_thread[t].op = "execute_with_resilience"
    /\ ag_thread[t].status_at_call = "failed"

\* C25: a call of execute_with_resilience made while the status of the agent is
\* failed is rejected: it ends by raising, and execute is not invoked.
C25_FailedAgentRejectsCalls ==
    \A t \in AgentThreads :
        CalledWhenFailed(t)
            ~> (ag_thread[t].pc = "idle" /\ ag_thread[t].result \notin {"none", "returned"})

\* C28: every call of execute_with_resilience, start_execution, end_execution,
\* set_status and get_status eventually returns or raises: no thread stays
\* blocked on the agent's lock, with one caller or with several.
C28_AgentCallsTerminate ==
    \A t \in AgentThreads : ag_thread[t].pc # "idle" ~> ag_thread[t].pc = "idle"

----------------------------------------------------------------------------
(* Properties of the AgentOrchestrator workflow *)

\* the stages whose execute raised in the run
FailedNodes == {core_state.error_log[i] : i \in 1..Len(core_state.error_log)}

\* C26: in the workflow varuna -> agni -> yama -> vayu -> hanuman -> krishna,
\* once a stage's execute raised and pipeline_status is FAILED no later stage
\* sets it to SUCCESS: a run in which any stage failed ends with FAILED.
C26_FailedRunStaysFailed ==
    FailedNodes # {} => core_state.pipeline_status = "failed"

----------------------------------------------------------------------------
(* Properties of the connection mutex *)

\* thread t is at `with self.lock` while it holds that lock itself
AcquiresHeldMutex(t) == dbl_thread[t].pc = "get_connection" /\ dbl_lock = t

\* C27: no DatabaseManager operation tries to acquire the connection mutex
\* while its own thread holds it, so that every operation, and in particular
\* update_pipeline_run(run_id, 'running'), releases the mutex and returns; at
\* most one connection is open at any time.
C27_MutexNeverReacquired ==
    /\ \A t \in DbThreads : ~AcquiresHeldMutex(t)
    /\ dbl_connections <= 1

----------------------------------------------------------------------------
(* Properties of Timeout *)

\* C30: when a Timeout-wrapped call has exited, by return or by exception, no
\* alarm is pending and the handler installed before the call is restored, so
\* that no timeout goes off after the call has finished.
C30_TimeoutLeavesNoAlarm ==
    (to_call.pc = "idle" /\ to_exits.count > 0)
        => /\ to_alarm = "off"
           /\ to_handler = to_exits.handler_before
           /\ to_exits.late = "none"

====
